---------------------------- MODULE Spec2Model ----------------------------
(***************************************************************************)
(* LuaLDAP (src/lualdap.c): the attribute change-set builder, the          *)
(* connection / future / search-cursor objects and the calls a Lua program *)
(* makes on them, with the LDAP client library (ldap_*_ext, ldap_result,   *)
(* ldap_unbind) as the environment.                                        *)
(*                                                                         *)
(* Strings are sequences of one-character strings, so that the code's      *)
(* tests on a first character (op2code) and Lua's number <-> string        *)
(* coercions are computed rather than assumed.                             *)
(***************************************************************************)
EXTENDS Integers, Sequences, FiniteSets, TLC

VARIABLES
    conn,       \* conn_data: the connection userdata (version, ld)
    registry,   \* the Lua registry slots handed out by luaL_ref
    objs,       \* the futures (closures) and search cursors created so far
    ldap,       \* the LDAP library / server side of the connection
    yields,     \* per object: what its fetch / next calls have returned
    last,       \* the most recent Lua-level call and what it returned
    blocked,    \* index of the object whose ldap_result call is waiting, or 0
    crashed,    \* the process was killed by a NULL handle inside libldap
    input       \* the arguments of the call of the builder specification

vars == <<conn, registry, objs, ldap, yields, last, blocked, crashed, input>>

---------------------------------------------------------------------------
(* Program constants.  The three limits are #ifndef-guarded macros; the    *)
(* model is the build with -DLUALDAP_MAX_ATTRS=3, the other two derived    *)
(* as in the source.                                                       *)

LUALDAP_MAX_ATTRS == 3

LUALDAP_ARRAY_VALUES_SIZE == 2 * LUALDAP_MAX_ATTRS

LUALDAP_MAX_VALUES == LUALDAP_ARRAY_VALUES_SIZE \div 2

LUALDAP_NO_OP == 0

\* LDAP_MOD_ADD = 0, LDAP_MOD_DELETE = 1, LDAP_MOD_REPLACE = 2, each or-ed
\* with LDAP_MOD_BVALUES = 0x80.
LUALDAP_MOD_ADD == 128

LUALDAP_MOD_DEL == 129

LUALDAP_MOD_REP == 130

LUA_NOREF == -2

\* A null pointer, and the content of memory nobody has written yet.
NULL == -1

Uninit == -3

---------------------------------------------------------------------------
(* Lua values, as far as the C API calls of the source look at them.       *)

LNil == [t |-> "nil", b |-> FALSE, n |-> 0, s |-> <<>>, h |-> <<>>]

LBool(b) == [t |-> "boolean", b |-> b, n |-> 0, s |-> <<>>, h |-> <<>>]

LNum(n) == [t |-> "number", b |-> FALSE, n |-> n, s |-> <<>>, h |-> <<>>]

LStr(s) == [t |-> "string", b |-> FALSE, n |-> 0, s |-> s, h |-> <<>>]

\* A table is the sequence of its <<key, value>> pairs in lua_next order.
LTab(pairs) == [t |-> "table", b |-> FALSE, n |-> 0, s |-> <<>>, h |-> pairs]

\* The table { [1] = q[1], ..., [n] = q[n] }.
LArr(q) == LTab([i \in 1..Len(q) |-> <<LNum(i), q[i]>>])

Digits == <<"0", "1", "2", "3", "4", "5", "6", "7", "8", "9">>

\* Lua's number -> string conversion, for the integers.
RECURSIVE tostringbuff(_)
tostringbuff(n) ==
    IF n < 0 THEN <<"-">> \o tostringbuff(0 - n)
    ELSE IF n < 10 THEN <<Digits[n + 1]>>
    ELSE tostringbuff(n \div 10) \o <<Digits[(n % 10) + 1]>>

\* Lua's string -> number conversion succeeds (signed decimal numerals only).
l_str2d(s) ==
    LET neg == Len(s) > 0 /\ s[1] = "-"
        from == IF neg THEN 2 ELSE 1
    IN  /\ Len(s) >= from
        /\ \A i \in from..Len(s) : \E d \in 1..10 : s[i] = Digits[d]

lua_isstring(v) == v.t \in {"string", "number"}

lua_isnumber(v) == v.t = "number" \/ (v.t = "string" /\ l_str2d(v.s))

lua_istable(v) == v.t = "table"

lua_isboolean(v) == v.t = "boolean"

lua_toboolean(v) == IF v.t = "nil" \/ (v.t = "boolean" /\ ~v.b) THEN 0 ELSE 1

\* A C string pointer: NULL, or the characters it points to.
CNull == [null |-> TRUE, s |-> <<>>]

CStr(s) == [null |-> FALSE, s |-> s]

\* lua_tolstring / lua_tostring: the string, a number converted, else NULL.
lua_tostring(v) ==
    IF v.t = "string" THEN CStr(v.s)
    ELSE IF v.t = "number" THEN CStr(tostringbuff(v.n))
    ELSE CNull

lua_typename(v) == v.t

lua_rawgeti(tab, i) ==
    IF \E k \in 1..Len(tab.h) : tab.h[k][1] = LNum(i)
    THEN tab.h[CHOOSE k \in 1..Len(tab.h) : tab.h[k][1] = LNum(i)][2]
    ELSE LNil

\* The border of the table: 1..n are all present and n+1 is not.
lua_rawlen(tab) ==
    CHOOSE n \in 0..Len(tab.h) :
        /\ \A i \in 1..n : lua_rawgeti(tab, i) # LNil
        /\ lua_rawgeti(tab, n + 1) = LNil

---------------------------------------------------------------------------
(* Errors raised with luaL_error / luaL_argcheck (a longjmp out of the C   *)
(* function) and soft failures returned with faildirect.                   *)

NoErr == [e |-> "none", name |-> <<>>, typ |-> "", arg |-> 0]

Err(e) == [e |-> e, name |-> <<>>, typ |-> "", arg |-> 0]

value_error(name, v) ==
    [e |-> "invalid value of attribute", name |-> name,
     typ |-> lua_typename(v), arg |-> 0]

---------------------------------------------------------------------------
(* attrs_data and the A_* builder functions.  A record of type attrs_data  *)
(* carries err, the error that a luaL_error inside the builder raised;     *)
(* nothing after the raise is executed.                                    *)

A_init ==
    [ai |-> 0,
     attrs |-> [i \in 0..LUALDAP_MAX_ATTRS |-> IF i = 0 THEN NULL ELSE Uninit],
     mods |-> [i \in 0..(LUALDAP_MAX_ATTRS - 1) |->
                  [mod_op |-> Uninit, mod_type |-> <<>>, mod_bvalues |-> Uninit]],
     vi |-> 0,
     values |-> [i \in 0..(LUALDAP_ARRAY_VALUES_SIZE - 1) |->
                    IF i = 0 THEN NULL ELSE Uninit],
     bi |-> 0,
     bvals |-> [i \in 0..(LUALDAP_MAX_VALUES - 1) |->
                   [bv_val |-> <<>>, bv_len |-> Uninit]],
     err |-> NoErr]

Raise(a, e) == [a EXCEPT !.err = e]

\* A_setbval with lua_type (L, -1) == LUA_TSTRING as its test.
A_setbval_strict(v) == v.t = "string"

\* lua_isstring, as A_setbval asks it of the value on top of the stack.
A_setbval_accepts(v) == lua_isstring(v)

\* A_setbval that keeps the last BerValue of bvals unused.
A_setbval_full_early(a) == a.bi >= LUALDAP_MAX_VALUES - 1

\* a->bi >= LUALDAP_MAX_VALUES: no BerValue of bvals is left.
A_setbval_full(a) == a.bi >= LUALDAP_MAX_VALUES

\* Returns the attrs_data and ret, the index of the BerValue in bvals.
A_setbval(a, v, n) ==
    IF A_setbval_full(a)
    THEN [a |-> Raise(a, Err("too many values")), ret |-> NULL]
    ELSE IF ~A_setbval_accepts(v)
    THEN [a |-> Raise(a, value_error(n, v)), ret |-> NULL]
    ELSE [a |-> [a EXCEPT !.bvals[a.bi] =
                       [bv_val |-> lua_tostring(v).s,
                        bv_len |-> Len(lua_tostring(v).s)],
                    !.bi = a.bi + 1],
          ret |-> a.bi]

\* A_setval that leaves a slot of values unwritten after each value.
A_setval_gap(a, v, n) ==
    IF a.vi >= LUALDAP_ARRAY_VALUES_SIZE
    THEN Raise(a, Err("too many values"))
    ELSE LET r == A_setbval(a, v, n)
         IN  IF r.a.err # NoErr THEN r.a
             ELSE [r.a EXCEPT !.values[a.vi] = r.ret, !.vi = a.vi + 2]

\* The callers ignore the returned pointer &values[vi]; only a is returned.
A_setval(a, v, n) ==
    IF a.vi >= LUALDAP_ARRAY_VALUES_SIZE
    THEN Raise(a, Err("too many values"))
    ELSE LET r == A_setbval(a, v, n)
         IN  IF r.a.err # NoErr THEN r.a
             ELSE [r.a EXCEPT !.values[a.vi] = r.ret, !.vi = a.vi + 1]

A_nullval(a) ==
    IF a.vi >= LUALDAP_ARRAY_VALUES_SIZE
    THEN Raise(a, Err("too many values"))
    ELSE [a EXCEPT !.values[a.vi] = NULL, !.vi = a.vi + 1]

\* The for loop of A_tab2val over the elements i..n of the table.
RECURSIVE A_tab2val_loop(_, _, _, _, _)
A_tab2val_loop(a, tab, i, n, name) ==
    IF i > n \/ a.err # NoErr THEN a
    ELSE A_tab2val_loop(A_setval(a, lua_rawgeti(tab, i), name),
                        tab, i + 1, n, name)

\* Returns the attrs_data and ret: NULL, or the index of the first slot of
\* the value list in values.
A_tab2val(a, v, name) ==
    IF lua_isboolean(v) /\ lua_toboolean(v) = 1
    THEN [a |-> a, ret |-> NULL]
    ELSE IF lua_isstring(v)
    THEN LET a1 == A_setval(a, v, name)
         IN  [a |-> IF a1.err # NoErr THEN a1 ELSE A_nullval(a1), ret |-> a.vi]
    ELSE IF lua_istable(v)
    THEN LET a1 == A_tab2val_loop(a, v, 1, lua_rawlen(v), name)
         IN  [a |-> IF a1.err # NoErr THEN a1 ELSE A_nullval(a1), ret |-> a.vi]
    ELSE [a |-> Raise(a, value_error(name, v)), ret |-> NULL]

A_setmod(a, op, name, v) ==
    IF a.ai >= LUALDAP_MAX_ATTRS
    THEN Raise(a, Err("too many attributes"))
    ELSE LET a1 == [a EXCEPT !.mods[a.ai].mod_op = op,
                             !.mods[a.ai].mod_type = name]
             r  == A_tab2val(a1, v, name)
         IN  IF r.a.err # NoErr THEN r.a
             ELSE [r.a EXCEPT !.mods[a.ai].mod_bvalues = r.ret,
                              !.attrs[a.ai] = a.ai,
                              !.ai = a.ai + 1]

\* The test on a key without its lua_isnumber.
A_tab2mod_anykey(k) == lua_isstring(k)

\* The test of A_tab2mod on a key: a string that is not a number.
A_tab2mod_iskey(k) == (~lua_isnumber(k)) /\ lua_isstring(k)

\* The lua_next loop of A_tab2mod from the k-th pair of the table on.
RECURSIVE A_tab2mod_loop(_, _, _, _)
A_tab2mod_loop(a, tab, k, op) ==
    IF k > Len(tab.h) \/ a.err # NoErr THEN a
    ELSE A_tab2mod_loop(
             IF A_tab2mod_iskey(tab.h[k][1])
             THEN A_setmod(a, op, lua_tostring(tab.h[k][1]).s, tab.h[k][2])
             ELSE a,
             tab, k + 1, op)

A_tab2mod(a, tab, op) == A_tab2mod_loop(a, tab, 1, op)

\* The capacity test of A_lastattr.
A_lastattr_full(a) == a.ai >= LUALDAP_MAX_ATTRS

A_lastattr(a) ==
    IF A_lastattr_full(a)
    THEN Raise(a, Err("too many attributes"))
    ELSE [a EXCEPT !.attrs[a.ai] = NULL, !.ai = a.ai + 1]

---------------------------------------------------------------------------
(* What the LDAP library reads from the LDAPMod ** it is handed: the       *)
(* modifications up to the first NULL of attrs, each with its value list   *)
(* (null = TRUE for a NULL mod_bvalues) read up to the first NULL slot.    *)

RECURSIVE ReadValues(_, _)
ReadValues(a, i) ==
    IF i >= LUALDAP_ARRAY_VALUES_SIZE \/ a.values[i] < 0 THEN <<>>
    ELSE <<a.bvals[a.values[i]].bv_val>> \o ReadValues(a, i + 1)

ReadMod(a, i) ==
    [mod_op |-> a.mods[i].mod_op,
     mod_type |-> a.mods[i].mod_type,
     null |-> a.mods[i].mod_bvalues = NULL,
     vals |-> IF a.mods[i].mod_bvalues = NULL THEN <<>>
              ELSE ReadValues(a, a.mods[i].mod_bvalues)]

RECURSIVE ReadMods(_, _)
ReadMods(a, i) ==
    IF i > LUALDAP_MAX_ATTRS \/ a.attrs[i] < 0 THEN <<>>
    ELSE <<ReadMod(a, a.attrs[i])>> \o ReadMods(a, i + 1)

---------------------------------------------------------------------------
(* Decoding of a search entry: push_values and set_attribs.  An entry is   *)
(* [dn, attrs], attrs the sequence of [type, vals] that                    *)
(* ldap_first_attribute / ldap_next_attribute / ldap_get_values_len give.  *)

\* push_values that makes a table of every non-empty value list.
push_values_as_table(vals) ==
    IF Len(vals) = 0 THEN LBool(TRUE)
    ELSE LArr([i \in 1..Len(vals) |-> LStr(vals[i])])

push_values(vals) ==
    LET n == Len(vals)
    IN  IF n = 0 THEN LBool(TRUE)
        ELSE IF n = 1 THEN LStr(vals[1])
        ELSE LArr([i \in 1..n |-> LStr(vals[i])])

\* lua_rawset (L, tab): tab[k] = v, replacing the value of a key already there.
lua_rawset(tab, k, v) ==
    IF \E i \in 1..Len(tab.h) : tab.h[i][1] = k
    THEN LTab([i \in 1..Len(tab.h) |->
                  IF tab.h[i][1] = k THEN <<k, v>> ELSE tab.h[i]])
    ELSE LTab(Append(tab.h, <<k, v>>))

RECURSIVE set_attribs_loop(_, _, _)
set_attribs_loop(attrs, i, tab) ==
    IF i > Len(attrs) THEN tab
    ELSE set_attribs_loop(attrs, i + 1,
             lua_rawset(tab, LStr(attrs[i].type), push_values(attrs[i].vals)))

set_attribs(entry, tab) == set_attribs_loop(entry.attrs, 1, tab)

---------------------------------------------------------------------------
(* The LDAP library as the code uses it.                                   *)

\* Bounds of the model.
MaxObjs == 2

MaxMsgs == 2

MaxGroups == 2

\* The open handle conn->ld.
LD == 1

LDAP_SUCCESS == 0

LDAP_COMPARE_FALSE == 5

LDAP_COMPARE_TRUE == 6

LDAP_NO_SUCH_OBJECT == 32

LDAP_INVALID_CREDENTIALS == 49

LDAP_SERVER_DOWN == -1

LDAP_DECODING_ERROR == -4

LDAP_RES_SEARCH_ENTRY == 100

LDAP_RES_SEARCH_RESULT == 101

LDAP_RES_MODIFY == 103

LDAP_RES_ADD == 105

LDAP_RES_DELETE == 107

LDAP_RES_MODDN == 109

LDAP_RES_COMPARE == 111

LDAP_RES_SEARCH_REFERENCE == 115

LDAP_RES_INTERMEDIATE == 121

NoEntry == [dn |-> <<>>, attrs |-> <<>>]

\* An entry of the directory and a referral, as search answers carry them.
SampleEntry ==
    [dn |-> <<"c", "n", "=", "a">>,
     attrs |-> << [type |-> <<"c", "n">>, vals |-> << <<"a">> >>],
                  [type |-> <<"o", "c">>, vals |-> << <<"t">>, <<"p">> >>],
                  [type |-> <<"s", "n">>, vals |-> <<>>] >>]

SampleReferral == [dn |-> <<"l", "d", "a", "p", ":">>, attrs |-> <<>>]

\* An LDAPMessage: id is the message id it answers, k its rank in the answer.
\* diag is its diagnosticMessage, empty when the server supplies none.
Msg(id, k, type, err, entry) ==
    [id |-> id, k |-> k, type |-> type, err |-> err, entry |-> entry,
     diag |-> <<>>]

\* The diagnostic messages of the servers of the model.
DiagTexts == {<<>>, <<"n", "o">>}

NoMsg == Msg(0, 0, 0, 0, NoEntry)

Ids == 1..MaxObjs

\* The request fn answered by a message of which type, with which codes.
ResType(fn) ==
    CASE fn = "ldap_add_ext" -> LDAP_RES_ADD
      [] fn = "ldap_delete_ext" -> LDAP_RES_DELETE
      [] fn = "ldap_modify_ext" -> LDAP_RES_MODIFY
      [] fn = "ldap_rename" -> LDAP_RES_MODDN
      [] fn = "ldap_compare_ext" -> LDAP_RES_COMPARE
      [] OTHER -> LDAP_RES_SEARCH_RESULT

ResCodes(fn) ==
    IF fn = "ldap_compare_ext" THEN {LDAP_COMPARE_TRUE, LDAP_COMPARE_FALSE}
    ELSE IF fn = "ldap_search_ext" THEN {LDAP_SUCCESS, LDAP_NO_SUCH_OBJECT}
    ELSE {LDAP_SUCCESS, LDAP_NO_SUCH_OBJECT}

\* The messages the server may send next in answer to request id: the
\* final result of the request, or for a search one more entry, referral
\* or message of another type; nothing once the final result is out.
\* ldap.sent[id] is what has been handed to the caller of that answer.
NextOf(id) ==
    IF id \notin 1..ldap.msgid \/ ldap.fin[id] THEN {}
    ELSE LET k == Len(ldap.sent[id]) + 1
             fn == ldap.ops[id]
         IN  {[Msg(id, k, ResType(fn), err, NoEntry) EXCEPT !.diag = d] :
                  err \in ResCodes(fn),
                  d \in IF fn = "ldap_search_ext" THEN {<<>>} ELSE DiagTexts}
             \cup (IF fn = "ldap_search_ext" /\ k <= MaxMsgs
                   THEN {Msg(id, k, LDAP_RES_SEARCH_ENTRY, 0, SampleEntry),
                         Msg(id, k, LDAP_RES_SEARCH_REFERENCE, 0, SampleReferral),
                         Msg(id, k, LDAP_RES_INTERMEDIATE, 0, NoEntry)}
                   ELSE {})

LDAP_RES_ANY == -1

\* The messages ldap_result can deliver when asked for msgid: those that
\* answer that request (LDAP_MSG_ONE), of any request for LDAP_RES_ANY.
Deliverable(msgid) ==
    IF msgid = LDAP_RES_ANY THEN UNION {NextOf(id) : id \in Ids}
    ELSE NextOf(msgid)

\* ldap_result (ld, msgid, LDAP_MSG_ONE, NULL, &res): the possible outcomes
\* of the call: -1, a message with its type as return value, 0 when the
\* library's own timeout (LDAP_OPT_TIMEOUT) expires, or the call waits for
\* the server (k = "wait").  With a NULL handle libldap fails its assert or
\* reads through the null pointer (the process dies), or a defensive
\* library answers -1.
LdapResultOutcomes(ld, msgid) ==
    IF ld = NULL
    THEN {[k |-> "crash", rc |-> 0, res |-> NoMsg],
          [k |-> "ret", rc |-> -1, res |-> NoMsg]}
    ELSE {[k |-> "ret", rc |-> -1, res |-> NoMsg],
          [k |-> "ret", rc |-> 0, res |-> NoMsg],
          [k |-> "wait", rc |-> 0, res |-> NoMsg]}
         \cup {[k |-> "ret", rc |-> m.type, res |-> m] : m \in Deliverable(msgid)}

\* The library after the call: a delivered message is consumed.
LdapAfterResult(o) ==
    IF o.res # NoMsg
    THEN [ldap EXCEPT !.sent[o.res.id] = Append(@, o.res),
                      !.fin[o.res.id] = (o.res.type = ResType(ldap.ops[o.res.id]))]
    ELSE ldap

\* The library after an accepted request: the next message id is taken.
LdapAfterSubmit(fn, rc) ==
    IF rc = LDAP_SUCCESS
    THEN [ldap EXCEPT !.msgid = @ + 1, !.ops[ldap.msgid + 1] = fn]
    ELSE ldap

SubmitRcs == {LDAP_SUCCESS, LDAP_SERVER_DOWN}

---------------------------------------------------------------------------
(* The record of the last call.                                            *)

\* The arguments of ldap_search_ext that lualdap_search reads from its table.
NoReq == [scope |-> 0, attrs |-> <<>>, attrsonly |-> 0, base |-> CNull,
          filter |-> CNull, sizelimit |-> 0, timeout |-> NULL]

NoSub == [called |-> FALSE, fn |-> "", ld |-> NULL, mods |-> <<>>,
          rc |-> 0, msgid |-> 0, req |-> NoReq]

Sub(fn, ld, mods, rc, msgid) ==
    [called |-> TRUE, fn |-> fn, ld |-> ld, mods |-> mods, rc |-> rc,
     msgid |-> msgid, req |-> NoReq]

\* struct timeval *timeout = NULL, as result_message and next_message pass it.
result_timeout == NULL

\* A call of ldap_result: args are the arguments of the Lua call that polls,
\* ld, msgid and timeout what ldap_result is given, rc what it returns; got
\* says that it has stored a message in res, frees how often the call has
\* released that message before it returned, wild that the call has
\* released through a pointer that ldap_result had not stored.
NoPoll == [called |-> FALSE, ld |-> NULL, msgid |-> 0, rc |-> 0,
           timeout |-> NULL, args |-> <<>>, got |-> FALSE, frees |-> 0,
           wild |-> FALSE]

Poll(ld, msgid, rc) ==
    [called |-> TRUE, ld |-> ld, msgid |-> msgid, rc |-> rc,
     timeout |-> result_timeout, args |-> <<>>, got |-> FALSE, frees |-> 0,
     wild |-> FALSE]

Call(op, h, res, err, sub, poll, ret) ==
    [op |-> op, h |-> h, res |-> res, err |-> err, sub |-> sub,
     poll |-> poll, ret |-> ret]

NoCall == Call("none", 0, "none", NoErr, NoSub, NoPoll, <<>>)

\* A closure or userdata as a returned Lua value: n is its index in objs.
LObj(t, n) == [t |-> t, b |-> FALSE, n |-> n, s |-> <<>>, h |-> <<>>]

Idle == blocked = 0 /\ ~crashed

---------------------------------------------------------------------------
(* Pieces shared by the Lua-callable functions.                            *)

ConnClosedErr == Err("LDAP connection is closed")

SearchClosedErr == Err("LDAP search is closed")

ldap_err2string(rc) == [e |-> "ldap_err2string", name |-> <<>>, typ |-> "", arg |-> rc]

\* getconnection without its luaL_argcheck.
getconnection_unchecked == NoErr

\* luaL_argcheck (L, conn->ld, 1, ...) of getconnection: the error it raises.
getconnection == IF conn.ld = NULL THEN ConnClosedErr ELSE NoErr

\* getsearch without its luaL_argcheck.
getsearch_unchecked(search) == NoErr

\* luaL_argcheck (L, search->conn != LUA_NOREF, 1, ...) of getsearch.
getsearch(search) == IF search.conn = LUA_NOREF THEN SearchClosedErr ELSE NoErr

\* The same check at the head of result_message.
result_message_argcheck == IF conn.ld = NULL THEN ConnClosedErr ELSE NoErr

\* A call that can create an object is taken while there is room for one
\* (a call on a closed connection creates nothing and is always possible).
CanCreate == conn.ld = NULL \/ Len(objs) < MaxObjs

\* An error raised only after the request has gone to the library.
Fatal_submitted(op, h, e) ==
    /\ last' = Call(op, h, "fatal", e,
                    Sub("ldap_add_ext", conn.ld, <<>>, LDAP_SUCCESS, ldap.msgid + 1),
                    NoPoll, <<>>)
    /\ ldap' = LdapAfterSubmit("ldap_add_ext", LDAP_SUCCESS)
    /\ UNCHANGED <<objs, yields, registry>>

\* luaL_error / a failed luaL_argcheck: the call ends having changed nothing.
Fatal(op, h, e) ==
    /\ last' = Call(op, h, "fatal", e, NoSub, NoPoll, <<>>)
    /\ UNCHANGED <<objs, yields, ldap, registry>>

\* The closure create_future builds: upvalues conn, msgid and code.
Future(msgid, code) == [kind |-> "future", conn |-> 0, msgid |-> msgid, code |-> code]

\* create_future without its test of rc.
create_future_always(op, rc, msgid, code, sub) ==
    /\ objs' = Append(objs, Future(msgid, code))
    /\ yields' = Append(yields, <<>>)
    /\ last' = Call(op, Len(objs) + 1, "value", NoErr, sub, NoPoll,
                    <<LObj("function", Len(objs) + 1)>>)

create_future(op, rc, msgid, code, sub) ==
    IF rc # LDAP_SUCCESS
    THEN /\ last' = Call(op, 0, "soft", ldap_err2string(rc), sub, NoPoll, <<>>)
         /\ UNCHANGED <<objs, yields>>
    ELSE /\ objs' = Append(objs, Future(msgid, code))
         /\ yields' = Append(yields, <<>>)
         /\ last' = Call(op, Len(objs) + 1, "value", NoErr, sub, NoPoll,
                         <<LObj("function", Len(objs) + 1)>>)

\* ldap_<fn>_ext (conn->ld, ..., &msgid) followed by create_future.
Submit(op, fn, code, mods) ==
    \E rc \in SubmitRcs :
        LET msgid == IF rc = LDAP_SUCCESS THEN ldap.msgid + 1 ELSE Uninit
        IN  /\ ldap' = LdapAfterSubmit(fn, rc)
            /\ create_future(op, rc, msgid, code, Sub(fn, conn.ld, mods, rc, msgid))
            /\ UNCHANGED registry

---------------------------------------------------------------------------
(* close and bind_simple.                                                  *)

\* lualdap_close without its test of conn->ld: it unbinds at every call.
lualdap_close_again ==
    /\ Idle
    /\ ldap' = [ldap EXCEPT !.unbinds = @ + 1]
    /\ conn' = [conn EXCEPT !.ld = NULL]
    /\ last' = Call("close", 0, "value", NoErr,
                    Sub("ldap_unbind_ext", conn.ld, <<>>, 0, 0), NoPoll,
                    <<LNum(1)>>)
    /\ UNCHANGED <<registry, objs, yields, blocked, crashed, input>>

\* conn:close () and the __gc metamethod of the connection, which is the
\* same C function.
lualdap_close ==
    /\ Idle
    /\ IF conn.ld = NULL
       THEN /\ last' = Call("close", 0, "value", NoErr, NoSub, NoPoll, <<>>)
            /\ UNCHANGED <<conn, ldap>>
       ELSE /\ ldap' = [ldap EXCEPT !.unbinds = @ + 1]
            /\ conn' = [conn EXCEPT !.ld = NULL]
            /\ last' = Call("close", 0, "value", NoErr,
                            Sub("ldap_unbind_ext", conn.ld, <<>>, 0, 0), NoPoll,
                            <<LNum(1)>>)
    /\ UNCHANGED <<registry, objs, yields, blocked, crashed, input>>

lualdap_bind_simple ==
    /\ Idle
    /\ IF getconnection # NoErr
       THEN Fatal("bind_simple", 0, getconnection)
       ELSE \E err \in {LDAP_SUCCESS, LDAP_INVALID_CREDENTIALS} :
               /\ last' = Call("bind_simple", 0,
                               IF err # LDAP_SUCCESS THEN "soft" ELSE "value",
                               IF err # LDAP_SUCCESS THEN ldap_err2string(err) ELSE NoErr,
                               Sub("ldap_sasl_bind_s", conn.ld, <<>>, err, 0), NoPoll,
                               IF err # LDAP_SUCCESS THEN <<>>
                               ELSE <<LObj("userdata", 0)>>)
               /\ UNCHANGED <<objs, yields, ldap, registry>>
    /\ UNCHANGED <<conn, blocked, crashed, input>>

---------------------------------------------------------------------------
(* add, compare, delete, modify, rename.                                   *)

\* The builder part of lualdap_add: A_init, A_tab2mod, A_lastattr.
add_build(tab) ==
    LET a1 == IF lua_istable(tab) THEN A_tab2mod(A_init, tab, LUALDAP_MOD_ADD)
              ELSE A_init
    IN  IF a1.err # NoErr THEN a1 ELSE A_lastattr(a1)

lualdap_add(tab) ==
    /\ Idle /\ CanCreate
    /\ IF getconnection # NoErr
       THEN Fatal("add", 0, getconnection)
       ELSE IF add_build(tab).err # NoErr
       THEN Fatal("add", 0, add_build(tab).err)
       ELSE Submit("add", "ldap_add_ext", LDAP_RES_ADD, ReadMods(add_build(tab), 0))
    /\ UNCHANGED <<conn, blocked, crashed, input>>

lualdap_compare ==
    /\ Idle /\ CanCreate
    /\ IF getconnection # NoErr
       THEN Fatal("compare", 0, getconnection)
       ELSE Submit("compare", "ldap_compare_ext", LDAP_RES_COMPARE, <<>>)
    /\ UNCHANGED <<conn, blocked, crashed, input>>

lualdap_delete ==
    /\ Idle /\ CanCreate
    /\ IF getconnection # NoErr
       THEN Fatal("delete", 0, getconnection)
       ELSE Submit("delete", "ldap_delete_ext", LDAP_RES_DELETE, <<>>)
    /\ UNCHANGED <<conn, blocked, crashed, input>>

\* op2code with LUALDAP_MOD_ADD as its default.
op2code_lenient(s) ==
    IF s.null THEN LUALDAP_MOD_ADD
    ELSE IF Len(s.s) = 0 THEN LUALDAP_MOD_ADD
    ELSE IF s.s[1] = "-" THEN LUALDAP_MOD_DEL
    ELSE IF s.s[1] = "=" THEN LUALDAP_MOD_REP
    ELSE LUALDAP_MOD_ADD

op2code(s) ==
    IF s.null THEN LUALDAP_NO_OP
    ELSE IF Len(s.s) = 0 THEN LUALDAP_NO_OP
    ELSE IF s.s[1] = "+" THEN LUALDAP_MOD_ADD
    ELSE IF s.s[1] = "-" THEN LUALDAP_MOD_DEL
    ELSE IF s.s[1] = "=" THEN LUALDAP_MOD_REP
    ELSE LUALDAP_NO_OP

forgotten_operation(param) ==
    [e |-> "forgotten operation on argument", name |-> <<>>, typ |-> "",
     arg |-> param]

\* The argument at stack position param; args are the arguments from #3 on.
Arg(args, param) == IF param - 2 \in 1..Len(args) THEN args[param - 2] ELSE LNil

\* The while loop of lualdap_modify from stack position param on.
RECURSIVE modify_loop(_, _, _)
modify_loop(a, args, param) ==
    IF a.err # NoErr \/ ~lua_istable(Arg(args, param)) THEN a
    ELSE LET op == op2code(lua_tostring(lua_rawgeti(Arg(args, param), 1)))
         IN  IF op = LUALDAP_NO_OP
             THEN Raise(a, forgotten_operation(param))
             ELSE modify_loop(A_tab2mod(a, Arg(args, param), op), args, param + 1)

\* lualdap_modify's builder with a do-while loop: argument #3 has to be a
\* group with an operation.
modify_build_needs_group(args) ==
    LET a0 == IF lua_istable(Arg(args, 3)) THEN A_init
              ELSE Raise(A_init, forgotten_operation(3))
        a1 == modify_loop(a0, args, 3)
    IN  IF a1.err # NoErr THEN a1 ELSE A_lastattr(a1)

\* The builder part of lualdap_modify.
modify_build(args) ==
    LET a1 == modify_loop(A_init, args, 3)
    IN  IF a1.err # NoErr THEN a1 ELSE A_lastattr(a1)

lualdap_modify(args) ==
    /\ Idle /\ CanCreate
    /\ IF getconnection # NoErr
       THEN Fatal("modify", 0, getconnection)
       ELSE IF modify_build(args).err # NoErr
       THEN Fatal("modify", 0, modify_build(args).err)
       ELSE Submit("modify", "ldap_modify_ext", LDAP_RES_MODIFY,
                   ReadMods(modify_build(args), 0))
    /\ UNCHANGED <<conn, blocked, crashed, input>>

lualdap_rename ==
    /\ Idle /\ CanCreate
    /\ IF getconnection # NoErr
       THEN Fatal("rename", 0, getconnection)
       ELSE Submit("rename", "ldap_rename", LDAP_RES_MODDN, <<>>)
    /\ UNCHANGED <<conn, blocked, crashed, input>>

---------------------------------------------------------------------------
(* search and the search cursor.                                           *)

\* luaL_ref that hands out the first slot every time.
luaL_ref_first == CHOOSE r \in 1..(MaxObjs + 1) : \A q \in 1..(MaxObjs + 1) : r <= q

\* luaL_ref (L, LUA_REGISTRYINDEX): a slot of the registry not in use.
luaL_ref == CHOOSE r \in 1..(MaxObjs + 1) : r \notin registry /\ \A q \in 1..(r - 1) : q \in registry

\* luaL_unref that leaves the slot in use.
luaL_unref_leak(ref) == registry

\* luaL_unref: LUA_NOREF and LUA_REFNIL are ignored.
luaL_unref(ref) == registry \ {ref}

\* The userdata create_search builds.
Search(ref, msgid) == [kind |-> "search", conn |-> ref, msgid |-> msgid, code |-> 0]

\* search_close that leaves search->conn as it is.
search_close_keeps(search) == search

\* search_close, on the search_data (the registry slot is freed beside it).
search_close(search) == [search EXCEPT !.conn = LUA_NOREF]

LDAP_SCOPE_DEFAULT == -1

LDAP_SCOPE_BASE == 0

LDAP_SCOPE_ONELEVEL == 1

LDAP_SCOPE_SUBTREE == 2

LDAP_NO_LIMIT == 0

\* The byte '\0' inside a Lua string.
NUL == "\\0"

\* What C code reads through a char *: the characters before the first NUL.
RECURSIVE c_str(_)
c_str(s) ==
    IF s = <<>> \/ Head(s) = NUL THEN <<>> ELSE <<Head(s)>> \o c_str(Tail(s))

\* lua_getfield (L, 2, name) on a table without metatable.
lua_getfield(tab, name) ==
    IF \E k \in 1..Len(tab.h) : tab.h[k][1] = LStr(name)
    THEN tab.h[CHOOSE k \in 1..Len(tab.h) : tab.h[k][1] = LStr(name)][2]
    ELSE LNil

\* option_error: type is the type that was expected, v the value found.
option_error(name, type, v) ==
    [e |-> CASE type = "string" -> "invalid value on option: string expected"
             [] type = "number" -> "invalid value on option: number expected"
             [] OTHER -> "invalid value on option: boolean expected",
     name |-> name, typ |-> lua_typename(v), arg |-> 0]

strtabparam(tab, name, def) ==
    LET v == lua_getfield(tab, name)
    IN  IF v = LNil THEN [err |-> NoErr, s |-> def]
        ELSE IF lua_isstring(v) THEN [err |-> NoErr, s |-> lua_tostring(v)]
        ELSE [err |-> option_error(name, "string", v), s |-> CNull]

\* The value of a decimal numeral.
RECURSIVE l_str2int(_)
l_str2int(s) ==
    IF s = <<>> THEN 0
    ELSE 10 * l_str2int(SubSeq(s, 1, Len(s) - 1))
         + (CHOOSE d \in 0..9 : Digits[d + 1] = s[Len(s)])

\* lua_tonumber / lua_tointeger of a value that lua_isnumber accepts.
lua_tonumber(v) ==
    IF v.t = "number" THEN v.n
    ELSE IF v.s[1] = "-" THEN 0 - l_str2int(Tail(v.s))
    ELSE l_str2int(v.s)

longtabparam(tab, name, def) ==
    LET v == lua_getfield(tab, name)
    IN  IF v = LNil THEN [err |-> NoErr, n |-> def]
        ELSE IF lua_isnumber(v) THEN [err |-> NoErr, n |-> lua_tonumber(v)]
        ELSE [err |-> option_error(name, "number", v), n |-> 0]

numbertabparam(tab, name, def) ==
    LET v == lua_getfield(tab, name)
    IN  IF v = LNil THEN [err |-> NoErr, n |-> def]
        ELSE IF lua_isnumber(v) THEN [err |-> NoErr, n |-> lua_tonumber(v)]
        ELSE [err |-> option_error(name, "number", v), n |-> 0]

booltabparam(tab, name, def) ==
    LET v == lua_getfield(tab, name)
    IN  IF v = LNil THEN [err |-> NoErr, n |-> def]
        ELSE IF lua_isboolean(v) THEN [err |-> NoErr, n |-> lua_toboolean(v)]
        ELSE [err |-> option_error(name, "boolean", v), n |-> 0]

\* string2scope with LDAP_SCOPE_DEFAULT for what it does not know.
string2scope_lenient(s) ==
    IF s.null \/ c_str(s.s) = <<>>
    THEN [err |-> NoErr, scope |-> LDAP_SCOPE_DEFAULT]
    ELSE CASE s.s[1] = "b" -> [err |-> NoErr, scope |-> LDAP_SCOPE_BASE]
           [] s.s[1] = "o" -> [err |-> NoErr, scope |-> LDAP_SCOPE_ONELEVEL]
           [] s.s[1] = "s" -> [err |-> NoErr, scope |-> LDAP_SCOPE_SUBTREE]
           [] OTHER -> [err |-> NoErr, scope |-> LDAP_SCOPE_DEFAULT]

\* s is NULL or *s is '\0'; else the switch on *s.
string2scope(s) ==
    IF s.null \/ c_str(s.s) = <<>>
    THEN [err |-> NoErr, scope |-> LDAP_SCOPE_DEFAULT]
    ELSE CASE s.s[1] = "b" -> [err |-> NoErr, scope |-> LDAP_SCOPE_BASE]
           [] s.s[1] = "o" -> [err |-> NoErr, scope |-> LDAP_SCOPE_ONELEVEL]
           [] s.s[1] = "s" -> [err |-> NoErr, scope |-> LDAP_SCOPE_SUBTREE]
           [] OTHER -> [err |-> [e |-> "invalid search scope", name |-> c_str(s.s),
                                 typ |-> "", arg |-> 0],
                        scope |-> 0]

\* get_attrs_param: the error it raises and the array attrs[] it fills.
get_attrs_param(tab) ==
    LET v == lua_getfield(tab, <<"a", "t", "t", "r", "s">>)
        n == lua_rawlen(v)
        bad == {i \in 1..n : ~lua_isstring(lua_rawgeti(v, i))}
    IN  IF lua_isstring(v)
        THEN [err |-> NoErr, attrs |-> <<c_str(lua_tostring(v).s)>>]
        ELSE IF ~lua_istable(v) THEN [err |-> NoErr, attrs |-> <<>>]
        ELSE IF LUALDAP_MAX_ATTRS < n + 1
        THEN [err |-> Err("too many arguments"), attrs |-> <<>>]
        ELSE IF bad # {}
        THEN [err |-> [e |-> "invalid value", name |-> <<>>, typ |-> "",
                       arg |-> CHOOSE i \in bad : \A j \in bad : i <= j],
              attrs |-> <<>>]
        ELSE [err |-> NoErr,
              attrs |-> [i \in 1..n |-> c_str(lua_tostring(lua_rawgeti(v, i)).s)]]

\* get_timeout_param: NULL, or the seconds of the struct timeval.
get_timeout_param(tab) ==
    LET t == numbertabparam(tab, <<"t", "i", "m", "e", "o", "u", "t">>, 0)
    IN  IF t.err # NoErr THEN [err |-> t.err, timeout |-> NULL]
        ELSE [err |-> NoErr, timeout |-> IF t.n <= 0 THEN NULL ELSE t.n]

\* The parameters of lualdap_search in the order in which it reads them:
\* the first error raised, or the arguments for ldap_search_ext.
search_params(tab) ==
    LET attrs == get_attrs_param(tab)
        attrsonly == booltabparam(tab, <<"a", "t", "t", "r", "s", "o", "n", "l", "y">>, 0)
        base == strtabparam(tab, <<"b", "a", "s", "e">>, CNull)
        filter == strtabparam(tab, <<"f", "i", "l", "t", "e", "r">>, CNull)
        scopestr == strtabparam(tab, <<"s", "c", "o", "p", "e">>, CNull)
        scope == string2scope(scopestr.s)
        sizelimit == longtabparam(tab, <<"s", "i", "z", "e", "l", "i", "m", "i", "t">>,
                                  LDAP_NO_LIMIT)
        timeout == get_timeout_param(tab)
        errs == <<attrs.err, attrsonly.err, base.err, filter.err, scopestr.err,
                  scope.err, sizelimit.err, timeout.err>>
        raised == {i \in 1..Len(errs) : errs[i] # NoErr}
    IN  IF raised # {}
        THEN [err |-> errs[CHOOSE i \in raised : \A j \in raised : i <= j],
              req |-> NoReq]
        ELSE [err |-> NoErr,
              req |-> [scope |-> scope.scope, attrs |-> attrs.attrs,
                       attrsonly |-> attrsonly.n, base |-> base.s,
                       filter |-> filter.s, sizelimit |-> sizelimit.n,
                       timeout |-> timeout.timeout]]

lualdap_search(tab) ==
    /\ Idle /\ CanCreate
    /\ IF getconnection # NoErr
       THEN Fatal("search", 0, getconnection)
       ELSE IF ~lua_istable(tab)
       THEN Fatal("search", 0, Err("no search specification"))
       ELSE IF search_params(tab).err # NoErr
       THEN Fatal("search", 0, search_params(tab).err)
       ELSE \E rc \in SubmitRcs :
               LET msgid == IF rc = LDAP_SUCCESS THEN ldap.msgid + 1 ELSE Uninit
                   sub == [Sub("ldap_search_ext", conn.ld, <<>>, rc, msgid)
                              EXCEPT !.req = search_params(tab).req]
               IN  /\ ldap' = LdapAfterSubmit("ldap_search_ext", rc)
                   /\ IF rc # LDAP_SUCCESS
                      THEN /\ last' = Call("search", 0, "fatal", ldap_err2string(rc),
                                           sub, NoPoll, <<>>)
                           /\ UNCHANGED <<objs, yields, registry>>
                      ELSE /\ objs' = Append(objs, Search(luaL_ref, msgid))
                           /\ registry' = registry \cup {luaL_ref}
                           /\ yields' = Append(yields, <<>>)
                           /\ last' = Call("search", Len(objs) + 1, "value", NoErr,
                                           sub, NoPoll,
                                           <<LObj("function", Len(objs) + 1)>>)
    /\ UNCHANGED <<conn, blocked, crashed, input>>

lualdap_search_close(h) ==
    /\ Idle
    /\ h \in 1..Len(objs) /\ objs[h].kind = "search"
    /\ IF objs[h].conn = LUA_NOREF
       THEN /\ last' = Call("search_close", h, "value", NoErr, NoSub, NoPoll, <<>>)
            /\ UNCHANGED <<objs, registry>>
       ELSE /\ registry' = luaL_unref(objs[h].conn)
            /\ objs' = [objs EXCEPT ![h] = search_close(@)]
            /\ last' = Call("search_close", h, "value", NoErr, NoSub, NoPoll,
                            <<LNum(1)>>)
    /\ UNCHANGED <<conn, ldap, yields, blocked, crashed, input>>

---------------------------------------------------------------------------
(* result_message (the future) and next_message (the cursor).  A call that *)
(* waits inside ldap_result leaves blocked = h and is finished by the same *)
(* action once the library has something to return.                        *)

\* A future that waits for any message instead of its own.
future_msgid_any(f) == LDAP_RES_ANY

\* (int)lua_tonumber (L, lua_upvalueindex (2))
future_msgid(f) == f.msgid

\* search->msgid
search_msgid(search) == search.msgid

ResultOutcomes(h, ld, msgid) ==
    IF blocked = h
    THEN {o \in LdapResultOutcomes(ld, msgid) : o.k = "ret"}
    ELSE LdapResultOutcomes(ld, msgid)

\* The end of a call that got outcome o from ldap_result; y is what the
\* call made of a delivered message ("" when there was none).
Returned(op, h, res, err, poll, ret, o, y) ==
    /\ last' = Call(op, h, res, err, NoSub, poll, ret)
    /\ ldap' = LdapAfterResult(o)
    /\ yields' = IF y = "" THEN yields
                 ELSE [yields EXCEPT ![h] = Append(@, [r |-> y, m |-> o.res])]
    /\ blocked' = 0
    /\ crashed' = crashed

Crashed(op, h, poll) ==
    /\ last' = Call(op, h, "crash", NoErr, NoSub, poll, <<>>)
    /\ crashed' = TRUE
    /\ UNCHANGED <<ldap, yields, blocked>>

Waiting(op, h, poll) ==
    /\ last' = Call(op, h, "blocked", NoErr, NoSub, poll, <<>>)
    /\ blocked' = h
    /\ UNCHANGED <<ldap, yields, crashed>>

\* LDAPMessage *res, declared without a value, after an ldap_result that
\* has delivered no message: NULL with a library that clears *result
\* before it fails, else what the stack held.
ResAfterFailure == {NULL, Uninit}

\* ldap_msgfree of a pointer that nobody has written: the process dies, or
\* the library releases whatever the pointer happens to address, such as
\* the message of an earlier call.
ldap_msgfree_wild == {"crash", "stale"}

\* ldap_msgfree (res): the number of received messages it releases, none
\* for the NULL that ldap_result leaves in res when it delivers nothing.
ldap_msgfree(res) == IF res = NoMsg THEN 0 ELSE 1

\* ldap_parse_result (..., freeit): it releases res when freeit is not 0,
\* whatever it returns.
ldap_parse_result_frees(res, freeit) ==
    IF freeit # 0 /\ res # NoMsg THEN 1 ELSE 0

\* The poll of a call that got outcome o and has released its message n times.
Released(poll, o, n) == [poll EXCEPT !.got = (o.res # NoMsg), !.frees = n]

\* One text for a timeout and for a failed poll.
poll_failure_same(rc) == Err("result error")

\* What result_message and next_message return for rc = 0 and for rc < 0.
poll_failure(rc) ==
    IF rc = 0 THEN Err("result timeout expired") ELSE Err("result error")

\* The msg that ldap_parse_result hands back: the diagnostic message of the
\* result, NULL when it is empty.
ldap_parse_result_msg(m) == IF Len(m.diag) = 0 THEN CNull ELSE CStr(m.diag)

\* The default branch with the parentheses appended whatever msg is.
rejection_text_always(err, msg) ==
    [ldap_err2string(err) EXCEPT !.name = <<" ", "(">> \o msg.s \o <<")">>]

\* The text of the default branch of the switch: ldap_err2string (err),
\* and in name what is appended to it, " (msg)" when msg is not NULL.
rejection_text(err, msg) ==
    [ldap_err2string(err) EXCEPT
        !.name = IF msg.null THEN <<>> ELSE <<" ", "(">> \o msg.s \o <<")">>]

\* The switch of result_message on the result code err of the message.
result_message_switch(op, h, poll, o) ==
    IF o.res.err \in {LDAP_SUCCESS, LDAP_COMPARE_TRUE}
    THEN Returned(op, h, "value", NoErr, poll, <<LBool(TRUE)>>, o, "true")
    ELSE IF o.res.err = LDAP_COMPARE_FALSE
    THEN Returned(op, h, "value", NoErr, poll, <<LBool(FALSE)>>, o, "false")
    ELSE Returned(op, h, "soft",
                  rejection_text(o.res.err, ldap_parse_result_msg(o.res)),
                  poll, <<>>, o, "rejected")

result_message(h, args) ==
    /\ ~crashed /\ blocked \in {0, h}
    /\ blocked = h => args = last.poll.args
    /\ h \in 1..Len(objs) /\ objs[h].kind = "future"
    /\ IF blocked = 0 /\ result_message_argcheck # NoErr
       THEN /\ last' = Call("fetch", h, "fatal", result_message_argcheck,
                            NoSub, NoPoll, <<>>)
            /\ UNCHANGED <<ldap, yields, blocked, crashed>>
       ELSE \E o \in ResultOutcomes(h, conn.ld, future_msgid(objs[h])) :
               LET poll == [Poll(conn.ld, future_msgid(objs[h]), o.rc)
                               EXCEPT !.args = args]
               IN  IF o.k = "crash" THEN Crashed("fetch", h, poll)
                   ELSE IF o.k = "wait" THEN Waiting("fetch", h, poll)
                   ELSE IF o.rc = 0
                   THEN Returned("fetch", h, "soft", poll_failure(o.rc),
                                 Released(poll, o, 0), <<>>, o, "")
                   ELSE IF o.rc < 0
                   THEN \E res \in ResAfterFailure : \E u \in ldap_msgfree_wild :
                           IF res = NULL
                           THEN Returned("fetch", h, "soft", poll_failure(o.rc),
                                         Released(poll, o, ldap_msgfree(o.res)),
                                         <<>>, o, "")
                           ELSE IF u = "crash" THEN Crashed("fetch", h, poll)
                           ELSE Returned("fetch", h, "soft", poll_failure(o.rc),
                                         [Released(poll, o, 0) EXCEPT !.wild = TRUE],
                                         <<>>, o, "")
                   ELSE \E rc \in {LDAP_SUCCESS, LDAP_DECODING_ERROR} :
                           LET parsed == Released(poll, o,
                                             ldap_parse_result_frees(o.res, 1))
                           IN  IF rc # LDAP_SUCCESS
                               THEN Returned("fetch", h, "soft", ldap_err2string(rc),
                                             parsed, <<>>, o, "undecoded")
                               ELSE result_message_switch("fetch", h, parsed, o)
    /\ UNCHANGED <<conn, registry, objs, input>>

\* What next_message returns for a search entry: its dn and attribute table.
next_message_entry(msg) ==
    <<LStr(msg.entry.dn), set_attribs(msg.entry, LTab(<<>>))>>

\* A next_message that reports the result code of the terminal message.
next_message_done_coded(res) ==
    IF res.err = LDAP_SUCCESS THEN <<>> ELSE <<LNil, LNum(res.err)>>

\* What next_message returns for the terminal message of the search:
\* nothing (ret = 0), the message is freed unparsed.
next_message_done(res) == <<>>

next_message(h, args) ==
    /\ ~crashed /\ blocked \in {0, h}
    /\ blocked = h => args = last.poll.args
    /\ h \in 1..Len(objs) /\ objs[h].kind = "search"
    /\ IF blocked = 0 /\ getsearch(objs[h]) # NoErr
       THEN /\ last' = Call("next", h, "fatal", getsearch(objs[h]),
                            NoSub, NoPoll, <<>>)
            /\ UNCHANGED <<ldap, yields, blocked, crashed, objs, registry>>
       ELSE \E o \in ResultOutcomes(h, conn.ld, search_msgid(objs[h])) :
               LET poll == [Poll(conn.ld, search_msgid(objs[h]), o.rc)
                               EXCEPT !.args = args]
                   freed == Released(poll, o, ldap_msgfree(o.res))
                   closed == /\ objs' = [objs EXCEPT ![h] = search_close(@)]
                             /\ registry' = luaL_unref(objs[h].conn)
                   open == UNCHANGED <<objs, registry>>
               IN  IF o.k = "crash" THEN Crashed("next", h, poll) /\ open
                   ELSE IF o.k = "wait" THEN Waiting("next", h, poll) /\ open
                   ELSE IF o.rc = 0
                   THEN Returned("next", h, "soft", poll_failure(o.rc),
                                 Released(poll, o, 0), <<>>, o, "") /\ open
                   ELSE IF o.rc = -1
                   THEN Returned("next", h, "soft", poll_failure(o.rc),
                                 Released(poll, o, 0), <<>>, o, "") /\ open
                   ELSE IF o.rc = LDAP_RES_SEARCH_RESULT
                   THEN Returned("next", h, "value", NoErr, freed,
                                 next_message_done(o.res), o, "Done")
                        /\ closed
                   ELSE IF o.res.type = LDAP_RES_SEARCH_ENTRY
                   THEN Returned("next", h, "value", NoErr, freed,
                                 next_message_entry(o.res), o, "Entry") /\ open
                   ELSE IF o.res.type = LDAP_RES_SEARCH_REFERENCE
                   THEN Returned("next", h, "value", NoErr, freed,
                                 <<LStr(o.res.entry.dn), LNil>>, o, "Referral") /\ open
                   ELSE IF o.res.type = LDAP_RES_SEARCH_RESULT
                   THEN Returned("next", h, "value", NoErr, freed,
                                 next_message_done(o.res), o, "Done")
                        /\ closed
                   ELSE Returned("next", h, "fatal", Err("error on search result chain"),
                                 freed, <<>>, o, "Chain") /\ open
    /\ UNCHANGED <<conn, input>>

---------------------------------------------------------------------------
(* The program: one open connection, and every call a Lua program can make *)
(* on it and on the objects the calls return.                              *)

NoInput == [op |-> "none", tab |-> LNil, args |-> <<>>]

InitConn ==
    /\ conn = [version |-> 3, ld |-> LD]
    /\ registry = {}
    /\ objs = <<>>
    /\ ldap = [msgid |-> 0,
               ops |-> [i \in Ids |-> ""],
               sent |-> [i \in Ids |-> <<>>],
               fin |-> [i \in Ids |-> FALSE],
               unbinds |-> 0]
    /\ yields = <<>>
    /\ last = NoCall
    /\ blocked = 0
    /\ crashed = FALSE

Init == InitConn /\ input = NoInput

S_cn == <<"c", "n">>

S_sn == <<"s", "n">>

S_o == <<"o">>

S_l == <<"l">>

S_a == <<"a">>

S_b == <<"b">>

\* A modification group { sigil, k1 = v1, ... }: sigil is the value at [1].
Group(sigil, pairs) == LTab(<<<<LNum(1), sigil>>>> \o pairs)

\* The table { scope = v }.
ScopeTab(v) == LTab(<< <<LStr(<<"s", "c", "o", "p", "e">>), v>> >>)

\* Search specifications of the calls of the protocol specification.
SearchSpecs == {LTab(<<>>), ScopeTab(LStr(<<"s", "u", "b">>)), ScopeTab(LStr(<<"x">>))}

\* Argument tables of the calls of the protocol specification.
SpecTabs == {LNil, LTab(<< <<LStr(S_cn), LStr(S_a)>> >>)}

SpecArgs == {<<>>, <<Group(LStr(<<"=">>), << <<LStr(S_cn), LBool(TRUE)>> >>)>>,
             <<Group(LStr(<<"x">>), <<>>)>>}

\* The arguments of a call of a future or of a cursor: none, or a timeout
\* of one second.
PollArgs == {<<>>, <<LNum(1)>>}

Next ==
    \/ lualdap_close
    \/ lualdap_bind_simple
    \/ \E tab \in SpecTabs : lualdap_add(tab)
    \/ lualdap_compare
    \/ lualdap_delete
    \/ \E args \in SpecArgs : lualdap_modify(args)
    \/ lualdap_rename
    \/ \E tab \in SearchSpecs : lualdap_search(tab)
    \/ \E h \in 1..MaxObjs : \E args \in PollArgs : result_message(h, args)
    \/ \E h \in 1..MaxObjs : \E args \in PollArgs : next_message(h, args)
    \/ \E h \in 1..MaxObjs : lualdap_search_close(h)

Spec == Init /\ [][Next]_vars

---------------------------------------------------------------------------
(* The builder specification: one add or modify call on arguments drawn    *)
(* from the sets below, and the entry the call created read back through   *)
(* the search decoder.                                                     *)

V_true == LBool(TRUE)

V_a == LStr(S_a)

\* The shapes an attribute value can have.
ValueShapes ==
    {V_true, LBool(FALSE), V_a, LStr(<<"b", "c">>), LNum(5), LNum(12),
     LArr(<<>>), LArr(<<V_a>>), LArr(<<V_a, LStr(S_b)>>),
     LArr(<<LStr(S_b), V_a>>), LArr(<<V_a, LNum(5)>>),
     LArr(<<V_a, LBool(TRUE)>>), LArr(<<LArr(<<V_a>>)>>),
     LArr([i \in 1..(LUALDAP_MAX_VALUES + 1) |-> V_a])}

\* The attribute names a1, a2, ...
AttrName(i) == <<"a">> \o tostringbuff(i)

\* The tables { name1 = v1, ..., namen = vn } with values from vals.
AttrTabs(n, vals) ==
    {LTab([i \in 1..n |-> <<LStr(AttrName(i)), f[i]>>]) : f \in [1..n -> vals]}

\* Tables with a key that is no attribute name for A_tab2mod.
OddKeyTabs ==
    {LTab(<< <<LStr(<<"7">>), V_a>> >>),
     LTab(<< <<LStr(S_cn), V_a>>, <<LStr(<<"7">>), V_true>> >>),
     LTab(<< <<LNum(1), V_a>>, <<LStr(S_cn), V_a>> >>),
     LTab(<< <<LBool(TRUE), V_a>>, <<LStr(S_cn), V_true>> >>)}

AddTabs ==
    UNION {AttrTabs(n, {V_true, V_a}) : n \in 0..(LUALDAP_MAX_ATTRS + 1)}
    \cup AttrTabs(1, ValueShapes) \cup AttrTabs(2, ValueShapes)
    \cup OddKeyTabs \cup {LNil}

Sigils == {LStr(<<"+">>), LStr(<<"-">>), LStr(<<"=">>), LStr(<<"x">>),
           LStr(<<>>), LNum(5), LNum(-5), LNil}

GroupBodies ==
    {<<>>,
     << <<LStr(S_cn), V_a>> >>,
     << <<LStr(S_cn), V_true>>, <<LStr(S_sn), LArr(<<V_a, LStr(S_b)>>)>> >>,
     << <<LStr(S_cn), LBool(FALSE)>> >>,
     << <<LNum(2), V_a>>, <<LStr(S_sn), V_a>>, <<LBool(TRUE), V_a>> >>}

\* A group whose element [1] is nil has no pair for it.
Groups ==
    {IF sg = LNil THEN LTab(b) ELSE Group(sg, b) : sg \in Sigils, b \in GroupBodies}

ModifyArgs == UNION {[1..n -> Groups] : n \in 0..MaxGroups}

\* The values of the scope option: absent, empty, the three scopes by
\* their names and by other words with the same first letter, words with
\* another first letter, strings with a NUL byte, and values of other types.
ScopeValues ==
    {LNil, LStr(<<>>),
     LStr(<<"b">>), LStr(<<"b", "a", "s", "e">>), LStr(<<"b", "o", "g", "u", "s">>),
     LStr(<<"o">>), LStr(<<"o", "n", "e", "l", "e", "v", "e", "l">>),
     LStr(<<"s">>), LStr(<<"s", "u", "b", "t", "r", "e", "e">>), LStr(<<"s", "u", "b">>),
     LStr(<<"x">>), LStr(<<"B", "a", "s", "e">>), LStr(<<" ", "s", "u", "b">>),
     LStr(<<"c", "h", "i", "l", "d", "r", "e", "n">>),
     LStr(<<NUL>>), LStr(<<NUL, "x">>), LStr(<<"b", NUL, "x">>), LStr(<<"x", NUL, "b">>),
     LNum(5), LNum(0), LBool(TRUE), LArr(<<>>)}

\* The other options of a search, in order and not.
SearchOptions ==
    {<<>>,
     << <<LStr(<<"b", "a", "s", "e">>), LStr(<<"o", "=", "x">>)>>,
        <<LStr(<<"f", "i", "l", "t", "e", "r">>), LStr(<<"c", "n", "=", "*">>)>>,
        <<LStr(<<"a", "t", "t", "r", "s">>), LArr(<<LStr(S_cn), LStr(S_sn)>>)>>,
        <<LStr(<<"s", "i", "z", "e", "l", "i", "m", "i", "t">>), LStr(<<"1", "2">>)>>,
        <<LStr(<<"t", "i", "m", "e", "o", "u", "t">>), LNum(2)>> >>,
     << <<LStr(<<"a", "t", "t", "r", "s">>), LStr(S_cn)>>,
        <<LStr(<<"a", "t", "t", "r", "s", "o", "n", "l", "y">>), LBool(TRUE)>> >>,
     << <<LStr(<<"a", "t", "t", "r", "s">>),
          LArr([i \in 1..LUALDAP_MAX_ATTRS |-> LStr(S_cn)])>> >>,
     << <<LStr(<<"a", "t", "t", "r", "s">>), LArr(<<LStr(S_cn), LBool(TRUE)>>)>> >>,
     << <<LStr(<<"a", "t", "t", "r", "s", "o", "n", "l", "y">>), LNum(1)>> >>,
     << <<LStr(<<"b", "a", "s", "e">>), LBool(TRUE)>> >>,
     << <<LStr(<<"f", "i", "l", "t", "e", "r">>), LArr(<<>>)>> >>,
     << <<LStr(<<"s", "i", "z", "e", "l", "i", "m", "i", "t">>), LStr(<<"x">>)>> >>,
     << <<LStr(<<"t", "i", "m", "e", "o", "u", "t">>), LBool(FALSE)>> >>}

SearchTabs ==
    {LTab(IF v = LNil THEN o ELSE o \o ScopeTab(v).h) :
        v \in ScopeValues, o \in SearchOptions}
    \cup {LNil, LStr(<<"s", "u", "b">>)}

BuildInputs ==
    {[op |-> "add", tab |-> t, args |-> <<>>] : t \in AddTabs}
    \cup {[op |-> "modify", tab |-> LNil, args |-> g] : g \in ModifyArgs}
    \cup {[op |-> "search", tab |-> t, args |-> <<>>] : t \in SearchTabs}

\* The entry a server holds after the add of mods, as a search returns it.
EntryOf(mods) ==
    [dn |-> SampleEntry.dn,
     attrs |-> [i \in 1..Len(mods) |->
                   [type |-> mods[i].mod_type, vals |-> mods[i].vals]]]

\* next_message on the search entry that the accepted add has created.
next_message_added ==
    /\ last.op = "add" /\ last.res = "value"
    /\ last' = Call("next", 0, "value", NoErr, last.sub, NoPoll,
                    next_message_entry(Msg(0, 1, LDAP_RES_SEARCH_ENTRY, 0,
                                           EntryOf(last.sub.mods))))
    /\ UNCHANGED <<conn, registry, objs, ldap, yields, blocked, crashed, input>>

BuildInit == InitConn /\ input \in BuildInputs

BuildNext ==
    \/ /\ input.op = "add" /\ last = NoCall
       /\ lualdap_add(input.tab)
    \/ /\ input.op = "modify" /\ last = NoCall
       /\ lualdap_modify(input.args)
    \/ /\ input.op = "search" /\ last = NoCall
       /\ lualdap_search(input.tab)
    \/ next_message_added

BuildSpec == BuildInit /\ [][BuildNext]_vars

---------------------------------------------------------------------------
(* Properties of the protocol specification Spec.                          *)

DispatchOps == {"add", "delete", "compare", "modify", "rename", "search",
                "bind_simple"}

\* C1: once close has released the handle (conn.ld = NULL), a call of add,
\* delete, compare, modify, rename, search or bind_simple ends with the fatal
\* error "LDAP connection is closed", has called no submit or bind function
\* of the library and has created no object; and no call at all hands the
\* library a NULL handle for a submit or bind.  (conn.ld = NULL and last.op
\* a dispatch operation means the call was made after the close: close
\* itself would be the last call otherwise.)
C1_ClosedConnRejects ==
    /\ (conn.ld = NULL /\ last.op \in DispatchOps) =>
           /\ last.res = "fatal"
           /\ last.err = ConnClosedErr
           /\ ~last.sub.called
           /\ last.h = 0
    /\ (last.op \in DispatchOps /\ last.sub.called) => last.sub.ld # NULL
    /\ ldap.unbinds <= 1

\* C1 happens: after a close that unbound the handle, add was called and
\* was rejected, with requests of before the close still on record.
C1_Witness ==
    /\ conn.ld = NULL /\ ldap.unbinds = 1
    /\ last.op = "add" /\ last.res = "fatal" /\ last.err = ConnClosedErr
    /\ ldap.msgid > 0

\* C2: with the connection closed, a fetch on a Future and a next on a
\* SearchCursor that is still open end with the fatal error "LDAP connection
\* is closed" and have not polled the library.
C2_StaleHandlesRejected ==
    (/\ conn.ld = NULL
     /\ \/ last.op = "fetch"
        \/ last.op = "next" /\ objs[last.h].conn # LUA_NOREF)
    => /\ last.res = "fatal"
       /\ last.err = ConnClosedErr
       /\ ~last.poll.called

\* The result next_message makes of a message of the given type.
ResultOf(type) ==
    CASE type = LDAP_RES_SEARCH_ENTRY -> "Entry"
      [] type = LDAP_RES_SEARCH_REFERENCE -> "Referral"
      [] type = LDAP_RES_SEARCH_RESULT -> "Done"
      [] OTHER -> "Chain"

SearchHandles == {h \in 1..Len(objs) : objs[h].kind = "search"}

FutureHandles == {h \in 1..Len(objs) : objs[h].kind = "future"}

\* The positions of the results r in what handle h has yielded.
Yielded(h, r) == {i \in 1..Len(yields[h]) : yields[h][i].r = r}

\* The entry messages among those the library has handed out for request id.
EntriesSent(id) ==
    {i \in 1..Len(ldap.sent[id]) : ldap.sent[id][i].type = LDAP_RES_SEARCH_ENTRY}

\* C3: a cursor yields one result for each message of its search, in the
\* order of the messages, an Entry for an entry message and Done for the
\* terminal message; Done is yielded at most once and last, after exactly as
\* many Entry results as the answer held entries (none when it held none),
\* and it closes the cursor; a next on a closed cursor ends with the fatal
\* error "LDAP search is closed" and has not polled the library.
C3_CursorTermination ==
    /\ \A h \in SearchHandles :
          LET y == yields[h]
              sent == ldap.sent[objs[h].msgid]
          IN  /\ Len(y) = Len(sent)
              /\ \A i \in 1..Len(y) :
                    /\ y[i].m = sent[i]
                    /\ y[i].r = ResultOf(sent[i].type)
                    /\ y[i].r = "Done" => i = Len(y)
              /\ Yielded(h, "Done") # {} =>
                    /\ Cardinality(Yielded(h, "Done")) = 1
                    /\ Cardinality(Yielded(h, "Entry"))
                          = Cardinality(EntriesSent(objs[h].msgid))
                    /\ objs[h].conn = LUA_NOREF
    /\ (last.op = "next" /\ objs[last.h].conn = LUA_NOREF) =>
          \/ /\ last.res = "value" /\ last.ret = <<>>
             /\ last.poll.called
             /\ Len(yields[last.h]) > 0
             /\ yields[last.h][Len(yields[last.h])].r = "Done"
          \/ /\ last.res = "fatal" /\ last.err = SearchClosedErr
             /\ ~last.poll.called

\* C3 happens: a cursor has yielded two entries and then Done, and the next
\* after that was rejected.
C3_Witness ==
    \E h \in SearchHandles :
        /\ Len(yields[h]) = 3
        /\ yields[h][1].r = "Entry" /\ yields[h][2].r = "Entry"
        /\ yields[h][3].r = "Done"
        /\ last.op = "next" /\ last.h = h
        /\ last.res = "fatal" /\ last.err = SearchClosedErr

\* C4: every Future and SearchCursor holds the message id that the library
\* issued to the submit call that created it, an id of a request of its own
\* kind that no other object holds; every poll of an object asks for that id
\* only; every message an object has consumed answers that id, and no
\* message is consumed twice, by two objects or by one.
C4_MessageIdIsolation ==
    /\ \A h \in 1..Len(objs) :
          /\ objs[h].msgid \in 1..ldap.msgid
          /\ objs[h].kind = "future" =>
                /\ ldap.ops[objs[h].msgid] # "ldap_search_ext"
                /\ ResType(ldap.ops[objs[h].msgid]) = objs[h].code
          /\ objs[h].kind = "search" => ldap.ops[objs[h].msgid] = "ldap_search_ext"
          /\ \A g \in 1..Len(objs) : g # h => objs[g].msgid # objs[h].msgid
          /\ \A i \in 1..Len(yields[h]) :
                /\ yields[h][i].m.id = objs[h].msgid
                /\ \A g \in 1..Len(objs) : \A j \in 1..Len(yields[g]) :
                      yields[g][j].m = yields[h][i].m => (g = h /\ j = i)
    /\ (last.op \in DispatchOps /\ last.h # 0) =>
          /\ last.sub.called /\ last.sub.rc = LDAP_SUCCESS
          /\ objs[last.h].msgid = last.sub.msgid
    /\ (last.op \in {"fetch", "next"} /\ last.poll.called) =>
          last.poll.msgid = objs[last.h].msgid

\* C4 happens: a cursor and a Future are outstanding together, the Future
\* was created first and resolved after the cursor had yielded an entry.
C4_Witness ==
    /\ Len(objs) = 2
    /\ objs[1].kind = "future" /\ objs[2].kind = "search"
    /\ Len(yields[2]) = 1 /\ yields[2][1].r = "Entry"
    /\ Len(yields[1]) = 1
    /\ last.op = "fetch" /\ last.h = 1 /\ last.res = "value"

Outcomes == {"true", "false", "rejected"}

\* The last call is a fetch on a Future that had returned its outcome before
\* the call: the outcome is on record and this call received no message.
SecondFetch ==
    /\ last.op = "fetch"
    /\ \E i \in 1..Len(yields[last.h]) : yields[last.h][i].r \in Outcomes
    /\ ~(last.poll.called /\ last.poll.rc > 0)

\* C5: a fetch on a Future that has returned its outcome fails: the call
\* ends with an error, soft or fatal (and yields no second outcome).
C5_SecondFetchFails ==
    /\ \A h \in FutureHandles : Cardinality(Yielded(h, "true") \cup
           Yielded(h, "false") \cup Yielded(h, "rejected")) <= 1
    /\ SecondFetch => last.res \in {"soft", "fatal"}

---------------------------------------------------------------------------
(* Properties of the builder specification BuildSpec.                      *)

\* The group tables of the call: the attribute table of add, the groups of
\* modify.
InputGroups ==
    IF input.op = "add"
    THEN (IF lua_istable(input.tab) THEN <<input.tab>> ELSE <<>>)
    ELSE input.args

IsAttrPair(p) == p[1].t = "string" /\ ~l_str2d(p[1].s)

\* The attributes of a group: its pairs with a string key that is no numeral.
AttrsOf(g) == SelectSeq(g.h, IsAttrPair)

RECURSIVE Flatten(_)
Flatten(gs) == IF gs = <<>> THEN <<>> ELSE AttrsOf(Head(gs)) \o Flatten(Tail(gs))

\* All attributes of the call, in the order of the groups.
InputAttrs == Flatten(InputGroups)

BuilderCall == last.op \in {"add", "modify"}

Built == BuilderCall /\ last.sub.called

\* C6: a call whose groups hold n attributes in all (and whose values and
\* operations are in order) builds its ChangeSet for every n up to
\* LUALDAP_MAX_ATTRS, and ends with the fatal error "too many attributes"
\* exactly when n is greater than LUALDAP_MAX_ATTRS.
C6_AttributeCeiling ==
    (/\ BuilderCall
     /\ last.err.e \notin {"too many values", "invalid value of attribute",
                           "forgotten operation on argument"})
    => /\ Len(InputAttrs) <= LUALDAP_MAX_ATTRS =>
              (Built /\ Len(last.sub.mods) = Len(InputAttrs))
       /\ (last.res = "fatal" /\ last.err = Err("too many attributes"))
              <=> Len(InputAttrs) > LUALDAP_MAX_ATTRS

\* C7 as stated: modify without a group ends with the fatal error of a
\* missing operation on its first group argument, and submits nothing.
C7_NoGroupsFails ==
    (last.op = "modify" /\ input.args = <<>>)
    => /\ last.res = "fatal"
       /\ last.err = forgotten_operation(3)
       /\ ~last.sub.called

\* C7 amended: modify without a group raises no error: it submits one
\* modify request whose ChangeSet is empty, and returns the Future of that
\* request, or the soft failure of a submit that the library refused.
C7_NoGroupsSubmitsEmpty ==
    (last.op = "modify" /\ input.args = <<>>)
    => /\ last.res # "fatal"
       /\ last.sub.called
       /\ last.sub.fn = "ldap_modify_ext"
       /\ last.sub.mods = <<>>
       /\ last.sub.rc = LDAP_SUCCESS =>
             /\ last.res = "value" /\ Len(objs) = 1
             /\ objs[1] = Future(last.sub.msgid, LDAP_RES_MODIFY)
       /\ last.sub.rc # LDAP_SUCCESS =>
             /\ last.res = "soft" /\ objs = <<>>
             /\ last.err = ldap_err2string(last.sub.rc)

\* C7 happens: a modify without groups has returned a Future.
C7_Witness ==
    /\ last.op = "modify" /\ input.args = <<>>
    /\ last.res = "value" /\ Len(objs) = 1 /\ ldap.msgid = 1

\* A group as C8 states it: its first element is absent, is no string, or
\* does not start with "+", "-" or "=".
NoOperation(g) ==
    LET f == lua_rawgeti(g, 1)
    IN  \/ f.t # "string"
        \/ Len(f.s) = 0
        \/ f.s[1] \notin {"+", "-", "="}

\* The same with a number as first element read as its decimal numeral.
NoOperationText(g) ==
    LET f == lua_rawgeti(g, 1)
        t == IF f.t = "number" THEN tostringbuff(f.n) ELSE f.s
    IN  \/ f.t \notin {"string", "number"}
        \/ Len(t) = 0
        \/ t[1] \notin {"+", "-", "="}

\* The builder accepts the attributes of the groups before group i.
PrefixBuilds(i) == modify_loop(A_init, SubSeq(input.args, 1, i - 1), 3).err = NoErr

\* C8 as stated: when group i is the first without an operation (and the
\* groups before it are built without error), modify ends with the fatal
\* error of a missing operation naming argument i + 2, the position of
\* that group, and submits nothing.
C8_NoOperationNamed ==
    last.op = "modify" =>
        \A i \in 1..Len(input.args) :
            (/\ NoOperation(input.args[i])
             /\ \A j \in 1..(i - 1) : ~NoOperation(input.args[j])
             /\ PrefixBuilds(i))
            => /\ last.res = "fatal"
               /\ last.err = forgotten_operation(i + 2)
               /\ ~last.sub.called

\* C8 amended: a number as first element counts as its decimal numeral (a
\* negative number starts with "-").  When some group has no operation,
\* modify ends with a fatal error, submits nothing and creates no Future;
\* when group i is the first such group and the groups before it are built
\* without error, the error is that of a missing operation and names
\* argument i + 2, whatever the groups after it hold.
C8_NoOperationTextNamed ==
    last.op = "modify" =>
        \A i \in 1..Len(input.args) :
            NoOperationText(input.args[i])
            => /\ last.res = "fatal"
               /\ ~last.sub.called
               /\ objs = <<>> /\ ldap.msgid = 0
               /\ (/\ \A j \in 1..(i - 1) : ~NoOperationText(input.args[j])
                   /\ PrefixBuilds(i))
                  => last.err = forgotten_operation(i + 2)

\* C8 happens: the second group has no operation, the first is in order and
\* holds an attribute; the error names argument 4.
C8_Witness ==
    /\ last.op = "modify" /\ Len(input.args) = 2
    /\ ~NoOperationText(input.args[1]) /\ AttrsOf(input.args[1]) # <<>>
    /\ NoOperationText(input.args[2]) /\ AttrsOf(input.args[2]) # <<>>
    /\ last.res = "fatal" /\ last.err = forgotten_operation(4)

\* The elements 1..n of a sequence value.
Elements(v) == [i \in 1..lua_rawlen(v) |-> lua_rawgeti(v, i)]

\* The value list of a value as C9 states it: ok is FALSE for a shape that
\* is an invalid value.
ShapeOf(v) ==
    IF v = LBool(TRUE) THEN [ok |-> TRUE, null |-> TRUE, vals |-> <<>>]
    ELSE IF v.t = "string" THEN [ok |-> TRUE, null |-> FALSE, vals |-> <<v.s>>]
    ELSE IF v.t = "table" /\ \A i \in 1..lua_rawlen(v) : Elements(v)[i].t = "string"
    THEN [ok |-> TRUE, null |-> FALSE,
          vals |-> [i \in 1..lua_rawlen(v) |-> Elements(v)[i].s]]
    ELSE [ok |-> FALSE, null |-> FALSE, vals |-> <<>>]

\* The text of a string, the decimal numeral of a number.
TextOf(v) == IF v.t = "number" THEN tostringbuff(v.n) ELSE v.s

\* The same with a number taken as the string of its decimal numeral.
ShapeOfText(v) ==
    IF v = LBool(TRUE) THEN [ok |-> TRUE, null |-> TRUE, vals |-> <<>>]
    ELSE IF v.t \in {"string", "number"}
    THEN [ok |-> TRUE, null |-> FALSE, vals |-> <<TextOf(v)>>]
    ELSE IF v.t = "table"
            /\ \A i \in 1..lua_rawlen(v) : Elements(v)[i].t \in {"string", "number"}
    THEN [ok |-> TRUE, null |-> FALSE,
          vals |-> [i \in 1..lua_rawlen(v) |-> TextOf(Elements(v)[i])]]
    ELSE [ok |-> FALSE, null |-> FALSE, vals |-> <<>>]

\* A builder call on groups that all have an operation, which no capacity
\* limit has stopped.
ShapeCase ==
    /\ BuilderCall
    /\ input.op = "add" => lua_istable(input.tab)
    /\ input.op = "modify" =>
          \A i \in 1..Len(input.args) : ~NoOperationText(input.args[i])
    /\ last.err.e \notin {"too many values", "too many attributes"}

\* C9 as stated: true gives a null value list, a string a list of one
\* element, a sequence of N strings a list of N elements in order; every
\* other shape (false, a number, a nested table, a sequence element that is
\* no string) ends the call with the invalid-value error naming the first
\* attribute of such a shape.
C9_ValueShapes ==
    ShapeCase =>
        IF \A k \in 1..Len(InputAttrs) : ShapeOf(InputAttrs[k][2]).ok
        THEN /\ Built /\ Len(last.sub.mods) = Len(InputAttrs)
             /\ \A k \in 1..Len(InputAttrs) :
                   /\ last.sub.mods[k].mod_type = InputAttrs[k][1].s
                   /\ last.sub.mods[k].null = ShapeOf(InputAttrs[k][2]).null
                   /\ last.sub.mods[k].vals = ShapeOf(InputAttrs[k][2]).vals
        ELSE LET k == CHOOSE k \in 1..Len(InputAttrs) :
                          /\ ~ShapeOf(InputAttrs[k][2]).ok
                          /\ \A j \in 1..(k - 1) : ShapeOf(InputAttrs[j][2]).ok
             IN  /\ last.res = "fatal" /\ ~last.sub.called
                 /\ last.err.e = "invalid value of attribute"
                 /\ last.err.name = InputAttrs[k][1].s

\* C9 amended: as C9, but a number is a valid value and a valid sequence
\* element: it stands for the string of its decimal numeral.  The shapes
\* that end the call with the invalid-value error are false, a table inside
\* a sequence, and a sequence element that is neither string nor number.
C9_ValueShapesText ==
    ShapeCase =>
        IF \A k \in 1..Len(InputAttrs) : ShapeOfText(InputAttrs[k][2]).ok
        THEN /\ Built /\ Len(last.sub.mods) = Len(InputAttrs)
             /\ \A k \in 1..Len(InputAttrs) :
                   /\ last.sub.mods[k].mod_type = InputAttrs[k][1].s
                   /\ last.sub.mods[k].null = ShapeOfText(InputAttrs[k][2]).null
                   /\ last.sub.mods[k].vals = ShapeOfText(InputAttrs[k][2]).vals
        ELSE LET k == CHOOSE k \in 1..Len(InputAttrs) :
                          /\ ~ShapeOfText(InputAttrs[k][2]).ok
                          /\ \A j \in 1..(k - 1) : ShapeOfText(InputAttrs[j][2]).ok
             IN  /\ last.res = "fatal" /\ ~last.sub.called
                 /\ last.err.e = "invalid value of attribute"
                 /\ last.err.name = InputAttrs[k][1].s

\* C9 happens: an add of the number 12 and of the sequence { "a", 5 } was
\* built, with the value lists <<"12">> and <<"a", "5">>.
C9_Witness ==
    /\ last.op = "add" /\ Built /\ Len(last.sub.mods) = 2
    /\ InputAttrs[1][2] = LNum(12)
    /\ last.sub.mods[1].vals = << <<"1", "2">> >>
    /\ InputAttrs[2][2] = LArr(<<V_a, LNum(5)>>)
    /\ last.sub.mods[2].vals = << <<"a">>, <<"5">> >>

\* Two tables hold the same keys with the same values.
SameTable(t, u) ==
    /\ t.t = "table" /\ u.t = "table"
    /\ Len(t.h) = Len(u.h)
    /\ {t.h[i] : i \in 1..Len(t.h)} = {u.h[i] : i \in 1..Len(u.h)}

\* A value C10 speaks of: true, a non-empty string, or a sequence (with
\* nothing but its elements 1..n) of at least least non-empty strings.
RoundTripValue(v, least) ==
    \/ v = LBool(TRUE)
    \/ v.t = "string" /\ Len(v.s) > 0
    \/ /\ v.t = "table" /\ lua_rawlen(v) = Len(v.h) /\ Len(v.h) >= least
       /\ \A i \in 1..Len(v.h) : Elements(v)[i].t = "string" /\ Len(Elements(v)[i].s) > 0

\* The last step has decoded the entry that the add of the table input.tab
\* created.
Decoded ==
    /\ input.op = "add" /\ lua_istable(input.tab)
    /\ last.op = "next" /\ Len(last.ret) = 2

\* C10 as stated: for an attribute map (its keys attribute names) whose
\* values are true, non-empty strings or sequences of non-empty strings, the
\* table decoded from the entry that its add creates equals the map.
C10_RoundTrip ==
    (/\ Decoded
     /\ \A k \in 1..Len(input.tab.h) :
           /\ IsAttrPair(input.tab.h[k])
           /\ RoundTripValue(input.tab.h[k][2], 0))
    => SameTable(last.ret[2], input.tab)

\* C10 amended: the same for a map whose sequences have at least two
\* elements.  (A sequence of one string comes back as that string, an empty
\* sequence as true.)
C10_RoundTripOfLists ==
    (/\ Decoded
     /\ \A k \in 1..Len(input.tab.h) :
           /\ IsAttrPair(input.tab.h[k])
           /\ RoundTripValue(input.tab.h[k][2], 2))
    => SameTable(last.ret[2], input.tab)

\* C10 happens: a map with a sequence of two strings and with true has
\* been sent and decoded.
C10_Witness ==
    /\ Decoded /\ Len(input.tab.h) = 2
    /\ input.tab.h[1][2] = LArr(<<LStr(S_b), V_a>>)
    /\ input.tab.h[2][2] = LBool(TRUE)
    /\ SameTable(last.ret[2], input.tab)

---------------------------------------------------------------------------
(* Further properties of the protocol specification Spec.                  *)

\* The last call is a next on a cursor that was closed before the call: the
\* cursor is closed, and not by this call returning Done.
NextOnClosed ==
    /\ last.op = "next"
    /\ objs[last.h].conn = LUA_NOREF
    /\ ~(last.res = "value" /\ last.ret = <<>> /\ last.poll.called)

\* C11 as stated: an operation on a closed connection, and a next on a
\* cursor whose results are exhausted, end with the soft pair (nil, message)
\* and raise no fatal error.
C11_ClosedIsSoft ==
    ((conn.ld = NULL /\ last.op \in DispatchOps) \/ NextOnClosed)
    => last.res = "soft"

\* The errors that lualdap_search raises for its argument #2.
SearchArgErrors == {"no search specification", "invalid search scope",
                    "too many arguments", "invalid value",
                    "invalid value on option: string expected",
                    "invalid value on option: number expected",
                    "invalid value on option: boolean expected"}

BuilderErrors == {"too many attributes", "too many values",
                  "invalid value of attribute",
                  "forgotten operation on argument"}

\* C11 amended: an operation on a closed connection and a next on a closed
\* (exhausted) cursor raise fatal errors.  The soft pair (nil, message) is
\* returned only for what the library reports: a rejected bind, a refused
\* submit of add, delete, compare, modify or rename, a poll that timed out
\* or failed, an undecodable or rejecting result.  Fatal errors are raised
\* for a closed connection, a closed cursor, the builder's argument and
\* capacity errors, the argument errors of search, a refused search submit
\* and a message of a wrong type in a search answer.
C11_ClosedIsFatal ==
    /\ (conn.ld = NULL /\ last.op \in DispatchOps) =>
          (last.res = "fatal" /\ last.err = ConnClosedErr)
    /\ NextOnClosed =>
          (last.res = "fatal" /\ last.err = SearchClosedErr /\ ~last.poll.called)
    /\ last.res = "soft" =>
          /\ last.sub.called \/ last.poll.called
          /\ last.err.e \in {"ldap_err2string", "result timeout expired",
                             "result error"}
          /\ last.ret = <<>>
    /\ last.res = "fatal" =>
          \/ last.err \in {ConnClosedErr, SearchClosedErr}
          \/ last.op \in {"add", "modify"} /\ last.err.e \in BuilderErrors
          \/ /\ last.op = "search" /\ ~last.sub.called
             /\ last.err.e \in SearchArgErrors
          \/ /\ last.op = "search" /\ last.sub.called
             /\ last.err = ldap_err2string(last.sub.rc)
          \/ /\ last.op = "next" /\ last.poll.called
             /\ last.err = Err("error on search result chain")

\* C11 happens: a cursor is exhausted, the connection is closed, and a
\* compare on the closed connection has raised the fatal error.
C11_Witness ==
    /\ conn.ld = NULL /\ last.op = "compare"
    /\ last.res = "fatal" /\ last.err = ConnClosedErr
    /\ \E h \in SearchHandles : Yielded(h, "Done") # {}

\* C12: a fetch or next that is called with a timeout hands that timeout
\* to the library's poll and does not stay waiting for the server: when the
\* answer is later than the timeout it ends with "result timeout expired".
C12_TimeoutHonoured ==
    (/\ last.op \in {"fetch", "next"} /\ last.poll.called
     /\ last.poll.args # <<>>)
    => /\ last.poll.timeout # NULL
       /\ last.res # "blocked"

\* The result that the last fetch has decoded, when it has decoded one.
FetchDecoded ==
    /\ last.op = "fetch" /\ last.poll.called /\ last.poll.rc > 0
    /\ Len(yields[last.h]) > 0
    /\ yields[last.h][Len(yields[last.h])].r \in Outcomes

FetchedMsg == yields[last.h][Len(yields[last.h])].m

\* C13: a fetch that has decoded a result returns true for the codes
\* Success and CompareTrue, false for CompareFalse, and for every other
\* code the soft pair whose text is the canonical string of that code,
\* followed by the server's diagnostic message in parentheses exactly when
\* the server has supplied one.
C13_ResultDecoding ==
    FetchDecoded =>
        /\ FetchedMsg.err \in {LDAP_SUCCESS, LDAP_COMPARE_TRUE} =>
              (last.res = "value" /\ last.ret = <<LBool(TRUE)>>)
        /\ FetchedMsg.err = LDAP_COMPARE_FALSE =>
              (last.res = "value" /\ last.ret = <<LBool(FALSE)>>)
        /\ FetchedMsg.err \notin {LDAP_SUCCESS, LDAP_COMPARE_TRUE, LDAP_COMPARE_FALSE} =>
              /\ last.res = "soft" /\ last.ret = <<>>
              /\ last.err.e = "ldap_err2string"
              /\ last.err.arg = FetchedMsg.err
              /\ FetchedMsg.diag = <<>> => last.err.name = <<>>
              /\ FetchedMsg.diag # <<>> =>
                    last.err.name = <<" ", "(">> \o FetchedMsg.diag \o <<")">>

\* C13 happens: a fetch has decoded a rejection that came with a diagnostic
\* message, and another Future has resolved to false before.
C13_Witness ==
    /\ FetchDecoded
    /\ FetchedMsg.err = LDAP_NO_SUCH_OBJECT /\ FetchedMsg.diag = <<"n", "o">>
    /\ last.res = "soft"
    /\ \E h \in FutureHandles : Yielded(h, "false") # {}

\* The last call is a fetch or next whose poll has returned.
PollReturned ==
    /\ last.op \in {"fetch", "next"} /\ last.poll.called
    /\ last.res \notin {"blocked", "crash"}

TimeoutText == [e |-> "result timeout expired", name |-> <<>>, typ |-> "", arg |-> 0]

ResultErrorText == [e |-> "result error", name |-> <<>>, typ |-> "", arg |-> 0]

\* The texts of the decoded rejections of the model.
RejectionTexts ==
    {rejection_text(c, m) : c \in {LDAP_NO_SUCH_OBJECT, LDAP_INVALID_CREDENTIALS},
                            m \in {CNull, CStr(<<"n", "o">>)}}

\* C14: in fetch and in next a poll that times out (rc = 0) returns the soft
\* pair with "result timeout expired" and a poll that fails (rc < 0) the
\* soft pair with "result error"; a rejection that fetch has decoded returns
\* the soft pair with the decoded text; the three texts differ pairwise.
\* After a timeout or a failed poll in next the cursor is still open, holds
\* its reference, has consumed nothing, and on an open connection the rest
\* of the answer can still be delivered to it.
C14_SoftFailuresDistinct ==
    /\ (PollReturned /\ last.poll.rc = 0) =>
          (last.res = "soft" /\ last.err = TimeoutText /\ last.ret = <<>>)
    /\ (PollReturned /\ last.poll.rc < 0) =>
          (last.res = "soft" /\ last.err = ResultErrorText /\ last.ret = <<>>)
    /\ (FetchDecoded /\ last.res = "soft") => last.err \in RejectionTexts
    /\ poll_failure(0) # poll_failure(-1)
    /\ RejectionTexts \cap {poll_failure(0), poll_failure(-1)} = {}
    /\ (PollReturned /\ last.op = "next" /\ last.poll.rc <= 0) =>
          /\ objs[last.h].conn # LUA_NOREF
          /\ objs[last.h].conn \in registry
          /\ Len(yields[last.h]) = Len(ldap.sent[objs[last.h].msgid])
          /\ conn.ld # NULL => Deliverable(search_msgid(objs[last.h])) # {}

\* C14 happens: a next has timed out on a cursor that has yielded one entry
\* and can still be given the rest of the answer.
C14_Witness ==
    /\ PollReturned /\ last.op = "next" /\ last.poll.rc = 0
    /\ last.err = TimeoutText
    /\ Len(yields[last.h]) = 1 /\ yields[last.h][1].r = "Entry"
    /\ objs[last.h].conn # LUA_NOREF
    /\ \E m \in Deliverable(search_msgid(objs[last.h])) :
          m.type = LDAP_RES_SEARCH_ENTRY

\* What a close that has unbound reports, and one that found the
\* connection closed.
CloseReport ==
    last.op = "close" =>
        /\ last.res = "value" /\ last.err = NoErr /\ ~last.poll.called
        /\ \/ last.sub.called /\ last.sub.fn = "ldap_unbind_ext"
                 /\ last.sub.ld = LD /\ last.ret = <<LNum(1)>>
           \/ ~last.sub.called /\ last.ret = <<>>

\* A step from a closed connection: it stays closed and is not unbound
\* again; a close changes nothing but the record of the call.
ClosedStep ==
    conn.ld = NULL =>
        /\ conn'.ld = NULL
        /\ ldap'.unbinds = ldap.unbinds
        /\ last'.op = "close" /\ last' # last =>
              /\ ~last'.sub.called /\ last'.ret = <<>> /\ last'.res = "value"
              /\ UNCHANGED <<conn, ldap, objs, registry, yields>>

\* C15: however often close is called (by the program or as the finalizer,
\* which is the same function), the connection is unbound exactly once, by
\* the close that finds it open, and that close returns 1; a close of a
\* closed connection calls nothing, returns nothing and is no error; no
\* step reopens a closed connection.
C15_CloseOnceAndFinal ==
    /\ [](ldap.unbinds = (IF conn.ld = NULL THEN 1 ELSE 0) /\ CloseReport)
    /\ [][ClosedStep]_vars

\* C15 happens: a close has been called on the closed connection.
C15_Witness ==
    /\ last.op = "close" /\ ~last.sub.called /\ last.ret = <<>>
    /\ conn.ld = NULL /\ ldap.unbinds = 1

OpenCursors == {h \in SearchHandles : objs[h].conn # LUA_NOREF}

\* A step that is a call of the cursor's close.
SearchCloseStep == last'.op = "search_close" /\ last' # last

\* What the cursor's close does to an open and to a closed cursor.
SearchCloseEffect ==
    SearchCloseStep =>
        LET h == last'.h
        IN  /\ h \in SearchHandles
            /\ last'.res = "value" /\ ~last'.sub.called /\ ~last'.poll.called
            /\ objs'[h].conn = LUA_NOREF
            /\ UNCHANGED <<conn, ldap, yields>>
            /\ IF objs[h].conn # LUA_NOREF
               THEN /\ registry' = registry \ {objs[h].conn}
                    /\ objs' = [objs EXCEPT ![h].conn = LUA_NOREF]
               ELSE /\ last'.ret = <<>>
                    /\ UNCHANGED <<objs, registry>>

\* C16: the close of an open cursor makes it closed in that very call and
\* frees the registry slot that held its connection, so that the slots in
\* use are those of the open cursors; the close of a closed cursor, however
\* it was closed, returns nothing, raises nothing and changes nothing; a
\* next on a cursor that is closed raises "LDAP search is closed".
C16_EarlyClose ==
    /\ [](/\ registry = {objs[h].conn : h \in OpenCursors}
          /\ \A g, h \in OpenCursors : objs[g].conn = objs[h].conn => g = h
          /\ last.op = "search_close" =>
                (objs[last.h].conn = LUA_NOREF /\ last.res = "value")
          /\ NextOnClosed =>
                (last.res = "fatal" /\ last.err = SearchClosedErr))
    /\ [][SearchCloseEffect]_vars

\* C16 happens: a cursor closed before the end of its answer, its slot
\* freed, has been asked for its next entry.
C16_Witness ==
    /\ last.op = "next" /\ last.err = SearchClosedErr
    /\ ~ldap.fin[objs[last.h].msgid]
    /\ objs[last.h].conn = LUA_NOREF /\ registry = {}

SubmitOps == {"add", "delete", "compare", "modify", "rename"}

\* The last call has handed a request to the library.
Submitted == last.op \in SubmitOps \cup {"search"} /\ last.sub.called

NextNotDone ==
    /\ last.op = "next" /\ last.poll.called /\ last.res \notin {"blocked", "crash"}
    /\ ~(last.res = "value" /\ last.ret = <<>>)

\* The step from the point of view of the cursor h.
CursorStep(h) ==
    /\ objs[h].conn = LUA_NOREF => objs'[h].conn = LUA_NOREF
    /\ objs[h].conn # LUA_NOREF =>
          \/ objs'[h].conn = objs[h].conn /\ objs[h].conn \in registry'
          \/ /\ objs'[h].conn = LUA_NOREF
             /\ registry' = registry \ {objs[h].conn}
             /\ last'.h = h
             /\ \/ last'.op = "search_close"
                \/ /\ last'.op = "next" /\ last'.res = "value" /\ last'.ret = <<>>
                   /\ last'.poll.rc = LDAP_RES_SEARCH_RESULT

\* The step that creates a cursor takes one slot that was free.
CursorCreation ==
    (Len(objs') > Len(objs) /\ objs'[Len(objs')].kind = "search") =>
        /\ objs'[Len(objs')].conn \notin registry
        /\ objs'[Len(objs')].conn # LUA_NOREF
        /\ registry' = registry \cup {objs'[Len(objs')].conn}

\* C21: a cursor holds a slot of the registry exactly while it is open, a
\* slot of its own; the slot is taken by the step that creates the cursor
\* and freed by the one step that closes it, a close or the next that
\* receives the terminal message, and a closed cursor never holds a slot
\* again; a next that returns an entry, a referral, a timeout, a poll error
\* or the fatal "error on search result chain" leaves the cursor open with
\* its slot.
C21_CursorReference ==
    /\ [](/\ \A h \in SearchHandles :
                objs[h].conn # LUA_NOREF <=> objs[h].conn \in registry
          /\ \A g, h \in SearchHandles :
                (objs[g].conn = objs[h].conn /\ objs[g].conn # LUA_NOREF) => g = h
          /\ \A r \in registry : \E h \in SearchHandles : objs[h].conn = r
          /\ NextNotDone =>
                (objs[last.h].conn # LUA_NOREF /\ objs[last.h].conn \in registry))
    /\ [][CursorCreation /\ \A h \in SearchHandles : CursorStep(h)]_vars

\* C21 happens: beside a closed cursor, a next on an open cursor has ended
\* with the fatal chain error and the cursor still holds its slot.
C21_Witness ==
    /\ NextNotDone /\ last.res = "fatal"
    /\ last.err = [e |-> "error on search result chain", name |-> <<>>,
                   typ |-> "", arg |-> 0]
    /\ objs[last.h].conn \in registry
    /\ \E g \in SearchHandles : objs[g].conn = LUA_NOREF

\* C23: a fetch or next that has returned has released the message that
\* its poll stored exactly once, whether it returns a value, the soft pair
\* or the fatal "error on search result chain"; a call whose poll stored no
\* message has released none; no call releases through a pointer that holds
\* no message of its own, so no message is released twice, and no call
\* dies in a release.
C23_MessageReleasedOnce ==
    /\ PollReturned =>
          /\ last.poll.got <=> last.poll.rc > 0
          /\ last.poll.frees = (IF last.poll.got THEN 1 ELSE 0)
          /\ ~last.poll.wild
    /\ (last.op = "fetch" /\ last.res = "crash") => last.poll.ld = NULL

\* The last call is a next whose poll received the terminal message of
\* its search.
TerminalReceived ==
    /\ last.op = "next" /\ PollReturned
    /\ last.poll.rc = LDAP_RES_SEARCH_RESULT

\* The message the last call received.
LastMessage == yields[last.h][Len(yields[last.h])].m

\* C25: a next that receives the terminal message of its search reports
\* Done (it returns no value and no error) and closes the cursor, whatever
\* result code the message carries: the call that ends a search the server
\* failed looks to the caller like the one that ends a successful search.
C25_TerminalHidesOutcome ==
    TerminalReceived =>
        /\ Len(yields[last.h]) > 0
        /\ yields[last.h][Len(yields[last.h])].r = "Done"
        /\ LastMessage.type = LDAP_RES_SEARCH_RESULT
        /\ LastMessage.err \in ResCodes("ldap_search_ext")
        /\ last.res = "value" /\ last.err = NoErr /\ last.ret = <<>>
        /\ last.poll.frees = 1
        /\ objs[last.h].conn = LUA_NOREF
        /\ objs[last.h].conn \notin registry

\* C25 happens: a next has received a terminal message with the result
\* code "no such object", after an entry.
C25_Witness ==
    /\ TerminalReceived
    /\ LastMessage.err = LDAP_NO_SUCH_OBJECT
    /\ Len(yields[last.h]) = 2 /\ yields[last.h][1].r = "Entry"
    /\ last.res = "value" /\ last.ret = <<>>

---------------------------------------------------------------------------
(* Further properties of the builder specification BuildSpec.              *)

\* The BerValues and the slots of values[] that the value v of an attribute
\* asks for: none for true, one and two for a string or number, one per
\* element and one more slot for a list.
ValueBuffers(v) ==
    IF lua_isstring(v) THEN 1 ELSE IF lua_istable(v) THEN lua_rawlen(v) ELSE 0

ValueSlots(v) ==
    IF lua_isstring(v) THEN 2 ELSE IF lua_istable(v) THEN lua_rawlen(v) + 1 ELSE 0

RECURSIVE SumOver(_, _)
SumOver(Op(_), ps) ==
    IF ps = <<>> THEN 0 ELSE Op(Head(ps)[2]) + SumOver(Op, Tail(ps))

NeededBuffers == SumOver(ValueBuffers, InputAttrs)

NeededSlots == SumOver(ValueSlots, InputAttrs)

OverValueCeiling ==
    \/ NeededBuffers > LUALDAP_MAX_ATTRS
    \/ NeededSlots > LUALDAP_MAX_ATTRS * 2

TooManyValues == [e |-> "too many values", name |-> <<>>, typ |-> "", arg |-> 0]

\* C17 as stated: a call whose values and operations are in order ends
\* with "too many values" exactly when its values ask for more than
\* LUALDAP_MAX_ATTRS BerValues or more than 2 * LUALDAP_MAX_ATTRS slots.
C17_ValueCeilingsExactly ==
    (BuilderCall /\ last.err.e \notin {"invalid value of attribute",
                                       "forgotten operation on argument"})
    => (last.err = TooManyValues <=> OverValueCeiling)

\* C17 amended: a call that no other builder error ends ("too many
\* attributes", an invalid value, a forgotten operation) ends with the fatal
\* "too many values" exactly when its values ask for more than
\* LUALDAP_MAX_ATTRS BerValues or more than 2 * LUALDAP_MAX_ATTRS slots; a
\* call within both ceilings never ends with "too many values", and a call
\* beyond one of them is never submitted.
C17_ValueCeilings ==
    BuilderCall =>
        /\ last.err.e \notin (BuilderErrors \ {"too many values"}) =>
              (last.res = "fatal" /\ last.err = TooManyValues <=> OverValueCeiling)
        /\ ~OverValueCeiling => last.err.e # "too many values"
        /\ OverValueCeiling =>
              (last.res = "fatal" /\ last.err.e \in BuilderErrors /\ ~last.sub.called)

\* C17 happens: two attributes whose lists hold one value more than there
\* are BerValues end the call with "too many values".
C17_Witness ==
    /\ BuilderCall /\ last.res = "fatal" /\ last.err = TooManyValues
    /\ Len(InputAttrs) = 2
    /\ NeededBuffers = LUALDAP_MAX_ATTRS + 1
    /\ NeededSlots <= LUALDAP_MAX_ATTRS * 2

\* The scope option of the search specification.
ScopeOption == lua_getfield(input.tab, <<"s", "c", "o", "p", "e">>)

\* The last call is a search whose scope has decided its outcome: it has
\* reached ldap_search_ext or has been ended by the scope.
ScopeDecided ==
    /\ input.op = "search" /\ last.op = "search" /\ lua_istable(input.tab)
    /\ last.err.e \in {"none", "ldap_err2string", "invalid search scope"}

SubmittedWith(scope) ==
    /\ last.sub.called /\ last.sub.fn = "ldap_search_ext"
    /\ last.sub.req.scope = scope

NothingSubmitted ==
    /\ ~last.sub.called /\ ldap.msgid = 0 /\ objs = <<>> /\ registry = {}

\* The outcome of a search whose scope reads as text.
ScopeOutcome(text) ==
    IF text = <<>> THEN SubmittedWith(LDAP_SCOPE_DEFAULT)
    ELSE IF text[1] = "b" THEN SubmittedWith(LDAP_SCOPE_BASE)
    ELSE IF text[1] = "o" THEN SubmittedWith(LDAP_SCOPE_ONELEVEL)
    ELSE IF text[1] = "s" THEN SubmittedWith(LDAP_SCOPE_SUBTREE)
    ELSE /\ last.res = "fatal" /\ NothingSubmitted
         /\ last.err.e = "invalid search scope"

\* C19 as stated: a scope string that starts with b, o or s is searched with
\* the base, one-level or subtree scope, an empty or absent scope with the
\* default scope, and a scope string with any other first character ends
\* the call with "invalid search scope" before anything is submitted.
C19_ScopeByFirstCharacter ==
    (ScopeDecided /\ ScopeOption.t \in {"nil", "string"})
    => ScopeOutcome(ScopeOption.s)

\* The scope as string2scope reads it: a number as its numeral, a string up
\* to its first NUL byte, nothing when the option is absent.
ScopeText ==
    IF ScopeOption.t = "number" THEN tostringbuff(ScopeOption.n)
    ELSE IF \E i \in 1..Len(ScopeOption.s) : ScopeOption.s[i] = NUL
    THEN SubSeq(ScopeOption.s, 1,
                (CHOOSE i \in 1..Len(ScopeOption.s) :
                    /\ ScopeOption.s[i] = NUL
                    /\ \A j \in 1..(i - 1) : ScopeOption.s[j] # NUL) - 1)
    ELSE ScopeOption.s

\* C19 amended: the scope is read as a C string, a number by its numeral and
\* a string up to its first NUL byte.  Read so, a scope that starts with b,
\* o or s is searched with the base, one-level or subtree scope, an empty or
\* absent scope (a string that starts with NUL is empty) with the default
\* scope, and a scope with any other first character ends the call with
\* "invalid search scope", which quotes the text, before anything is
\* submitted.  A scope that is neither string nor number is never submitted.
C19_ScopeParsing ==
    /\ (ScopeDecided /\ ScopeOption.t \in {"nil", "string", "number"})
       => /\ ScopeOutcome(ScopeText)
          /\ last.err.e = "invalid search scope" => last.err.name = ScopeText
    /\ (input.op = "search" /\ last.op = "search"
        /\ ScopeOption.t \notin {"nil", "string", "number"})
       => (last.res = "fatal" /\ NothingSubmitted)

\* C19 happens: a search with the scope "x" and no other option has ended
\* with "invalid search scope" and nothing submitted.
C19_Witness ==
    /\ ScopeDecided /\ input.tab = ScopeTab(LStr(<<"x">>))
    /\ last.res = "fatal" /\ last.err.e = "invalid search scope"
    /\ NothingSubmitted

\* The call is an add or modify that a builder error has ended.
BuilderAbort(call) ==
    /\ call.op \in {"add", "modify"} /\ call.res = "fatal"
    /\ call.err.e \in BuilderErrors

\* C20: an add or modify that ends with "too many attributes", "too many
\* values", an invalid value or a forgotten operation has called no
\* function of the library, has taken no message id, has created no future
\* and returns nothing; the step leaves the connection, the library, the
\* handles and the registry as they were.
C20_BuilderErrorBeforeSubmit ==
    /\ [](BuilderAbort(last) =>
             /\ ~last.sub.called /\ ~last.poll.called
             /\ last.h = 0 /\ last.ret = <<>>
             /\ ldap.msgid = 0 /\ Len(objs) = 0 /\ conn.ld = LD)
    /\ [][BuilderAbort(last') =>
             UNCHANGED <<conn, ldap, objs, registry, yields, blocked, crashed>>]_vars

\* C20 happens: a call with two attributes, the first of them in order, has
\* ended with a builder error and nothing has been submitted.
C20_Witness ==
    /\ BuilderAbort(last) /\ last.err.e = "invalid value of attribute"
    /\ Len(InputAttrs) = 2 /\ lua_isstring(InputAttrs[1][2])
    /\ ~last.sub.called /\ ldap.msgid = 0

\* The operation that the first element of group g stands for.
SigilOp(g) ==
    LET t == TextOf(lua_rawgeti(g, 1))
    IN  CASE t[1] = "+" -> LUALDAP_MOD_ADD
          [] t[1] = "-" -> LUALDAP_MOD_DEL
          [] t[1] = "=" -> LUALDAP_MOD_REP

\* The attribute names of group g in its own order, each with the operation
\* of the group.
TagsOf(g) ==
    [k \in 1..Len(AttrsOf(g)) |-> [op |-> SigilOp(g), name |-> AttrsOf(g)[k][1].s]]

RECURSIVE TagsOfGroups(_)
TagsOfGroups(gs) ==
    IF gs = <<>> THEN <<>> ELSE TagsOf(Head(gs)) \o TagsOfGroups(Tail(gs))

\* The modify call has handed its ChangeSet to the library.
ModifyBuilt == input.op = "modify" /\ last.op = "modify" /\ last.sub.called

\* C22: the modifications that modify hands to the library are those of
\* group 1, then those of group 2, and so on, one for each string key of the
\* group that is no numeral, in the order of the group; each carries the
\* operation of its own group ("+" LDAP_MOD_ADD, "-" LDAP_MOD_DELETE, "="
\* LDAP_MOD_REPLACE, with LDAP_MOD_BVALUES); element [1] and the other keys
\* that are no strings give no modification; the array attrs holds a
\* pointer for each modification, then NULL, and nothing after it is
\* written.
C22_GroupOrderAndTags ==
    ModifyBuilt =>
        LET mods == last.sub.mods
            tags == TagsOfGroups(input.args)
            a == modify_build(input.args)
        IN  /\ Len(mods) = Len(tags)
            /\ \A k \in 1..Len(mods) :
                  /\ mods[k].mod_op = tags[k].op
                  /\ mods[k].mod_type = tags[k].name
            /\ \A p \in 1..Len(input.args) : \A q \in 1..Len(input.args[p].h) :
                  input.args[p].h[q][1].t # "string" =>
                      \A k \in 1..Len(mods) :
                          mods[k].mod_type # lua_tostring(input.args[p].h[q][1]).s
            /\ a.ai = Len(mods) + 1
            /\ a.attrs[Len(mods)] = NULL
            /\ \A i \in 0..(Len(mods) - 1) : a.attrs[i] = i
            /\ \A i \in (Len(mods) + 1)..LUALDAP_MAX_ATTRS : a.attrs[i] = Uninit

\* C22 happens: two groups with different operations, the first with keys
\* that are no strings, have given two modifications.
C22_Witness ==
    /\ ModifyBuilt /\ Len(input.args) = 2
    /\ SigilOp(input.args[1]) # SigilOp(input.args[2])
    /\ \E q \in 1..Len(input.args[1].h) : input.args[1].h[q][1].t = "boolean"
    /\ Len(last.sub.mods) = 2
    /\ last.sub.mods[1].mod_op # last.sub.mods[2].mod_op

\* The attributes of group g as the builder is given them: operation, name
\* and value.
TriplesOf(g, op) ==
    [k \in 1..Len(AttrsOf(g)) |->
        [op |-> op, name |-> AttrsOf(g)[k][1].s, v |-> AttrsOf(g)[k][2]]]

\* Those of the groups up to the first group without operation.
RECURSIVE ModTriples(_)
ModTriples(gs) ==
    IF gs = <<>> \/ NoOperationText(Head(gs)) THEN <<>>
    ELSE TriplesOf(Head(gs), SigilOp(Head(gs))) \o ModTriples(Tail(gs))

InputTriples ==
    IF input.op = "add"
    THEN (IF lua_istable(input.tab) THEN TriplesOf(input.tab, LUALDAP_MOD_ADD)
          ELSE <<>>)
    ELSE IF input.op = "modify" THEN ModTriples(input.args)
    ELSE <<>>

\* The attrs_data after the first k attributes (as far as no error has
\* ended the build before).
RECURSIVE BuildUpTo(_)
BuildUpTo(k) ==
    IF k = 0 THEN A_init
    ELSE LET a == BuildUpTo(k - 1)
             t == InputTriples[k]
         IN  IF a.err # NoErr THEN a ELSE A_setmod(a, t.op, t.name, t.v)

\* The attrs_data after each value of the list of attribute k.
ValueStates(k) ==
    LET a == BuildUpTo(k - 1)
        t == InputTriples[k]
    IN  IF a.err # NoErr \/ a.ai >= LUALDAP_MAX_ATTRS \/ ~lua_istable(t.v) THEN {}
        ELSE {A_tab2val_loop([a EXCEPT !.mods[a.ai].mod_op = t.op,
                                       !.mods[a.ai].mod_type = t.name],
                             t.v, 1, j, t.name) : j \in 0..lua_rawlen(t.v)}

\* The attrs_data at the end of the build.
BuildEnd ==
    LET a == BuildUpTo(Len(InputTriples))
        opless == /\ input.op = "modify"
                  /\ \E i \in 1..Len(input.args) : NoOperationText(input.args[i])
    IN  IF a.err # NoErr \/ opless THEN a ELSE A_lastattr(a)

\* Every attrs_data that the build of the call goes through.
BuilderStates ==
    {BuildUpTo(k) : k \in 0..Len(InputTriples)}
    \cup UNION {ValueStates(k) : k \in 1..Len(InputTriples)}
    \cup {BuildEnd}

\* The slots of values below vi that hold the NULL that ends a value list.
Terminators(a) ==
    {i \in 0..(LUALDAP_ARRAY_VALUES_SIZE - 1) : i < a.vi /\ a.values[i] = NULL}

\* The indices of attrs_data are in range and nothing is written beyond them.
IndicesInRange(a) ==
    /\ 0 <= a.ai /\ a.ai <= LUALDAP_MAX_ATTRS
    /\ 0 <= a.bi /\ a.bi <= LUALDAP_MAX_VALUES
    /\ 0 <= a.vi /\ a.vi <= LUALDAP_ARRAY_VALUES_SIZE
    /\ a.vi = a.bi + Cardinality(Terminators(a))
    /\ \A i \in 0..(LUALDAP_ARRAY_VALUES_SIZE - 1) :
          /\ i < a.vi => a.values[i] \in {NULL} \cup 0..(a.bi - 1)
          /\ i > a.vi => a.values[i] = Uninit
    /\ \A i \in 0..(LUALDAP_MAX_VALUES - 1) :
          (a.bvals[i].bv_len # Uninit) <=> i < a.bi
    /\ \A i \in 0..LUALDAP_MAX_ATTRS :
          /\ i < a.ai => a.attrs[i] \in {NULL} \cup 0..(LUALDAP_MAX_ATTRS - 1)
          /\ i > a.ai => a.attrs[i] = Uninit
    /\ \A i \in 0..(LUALDAP_MAX_ATTRS - 1) :
          i > a.ai => a.mods[i].mod_op = Uninit

\* C24: every attrs_data that the build of an add or modify goes through
\* has 0 <= ai <= LUALDAP_MAX_ATTRS, 0 <= bi <= LUALDAP_MAX_VALUES and
\* vi = bi + the number of terminators written, vi <=
\* LUALDAP_ARRAY_VALUES_SIZE, and holds nothing beyond its indices; where
\* "too many values" is raised, bi has reached LUALDAP_MAX_VALUES and vi is
\* below LUALDAP_ARRAY_VALUES_SIZE, so that it is never the test of vi that
\* fails.  The call ends as the last of these attrs_data says.
C24_BuilderIndices ==
    BuilderCall =>
        /\ \A a \in BuilderStates :
              /\ IndicesInRange(a)
              /\ a.err.e = "too many values" =>
                    (a.bi >= LUALDAP_MAX_VALUES /\ a.vi < LUALDAP_ARRAY_VALUES_SIZE)
        /\ Built => (BuildEnd.err = NoErr /\ last.sub.mods = ReadMods(BuildEnd, 0))
        /\ (last.res = "fatal" /\ last.err.e \in BuilderErrors
            /\ last.err.e # "forgotten operation on argument")
           => last.err = BuildEnd.err

\* C24 happens: a build has finished one attribute with its terminator,
\* has filled all of bvals, and has been ended by the next value.
C24_Witness ==
    /\ BuilderCall /\ last.res = "fatal" /\ last.err.e = "too many values"
    /\ BuildEnd.bi = LUALDAP_MAX_VALUES
    /\ Cardinality(Terminators(BuildEnd)) = 1
    /\ BuildEnd.ai = 1

=============================================================================
